---- MODULE Spec2Model ----
(***************************************************************************)
(* A model of bq's expression compiler and binary codec (src/expr.go):     *)
(* the tokenizer, the recursive-descent parser, the node tree and its      *)
(* Eval protocol, and the decode path of Expr.Read.                        *)
(*                                                                         *)
(* Conventions.  A Go string is a sequence of one-character strings.  A    *)
(* Go integer value of width w bytes is a record [type, neg, mag] whose    *)
(* mag is the magnitude written as w base-256 digits, least significant    *)
(* first (64-bit values do not fit the model checker's integers).  A typed *)
(* slice is [type, elems].  A Go (value, error) pair is a record with an   *)
(* err flag and a kind that stands for the dynamic type of the value       *)
(* ("nil" when the value is nil).  Go indexes from 0, the model from 1.    *)
(***************************************************************************)
EXTENDS Integers, Sequences, FiniteSets, TLC

VARIABLES input, host, expr, node, src, rpos, idx, values, inVals, result, pc,
          files

vars == <<input, host, expr, node, src, rpos, idx, values, inVals, result, pc,
          files>>

(***************************************************************************)
(* Bounds of the model.                                                    *)
(***************************************************************************)
MaxFormats == 2
MaxCount == 2
MaxSrc == 9
MaxSeed == 3

----------------------------------------------------------------------------
(* Generic helpers *)

RECURSIVE Concat(_)
Concat(ss) == IF ss = <<>> THEN <<>> ELSE Head(ss) \o Concat(Tail(ss))

RECURSIVE SeqsUpTo(_, _)
SeqsUpTo(S, n) ==
  IF n = 0 THEN {<<>>}
  ELSE LET prev == SeqsUpTo(S, n - 1)
       IN prev \cup {Append(s, x) : s \in {t \in prev : Len(t) = n - 1}, x \in S}

----------------------------------------------------------------------------
(* Character classes, src/expr.go:259-273 *)

Digits == <<"0", "1", "2", "3", "4", "5", "6", "7", "8", "9">>

Lower == {"a", "b", "c", "d", "e", "f", "g", "h", "i", "j", "k", "l", "m",
          "n", "o", "p", "q", "r", "s", "t", "u", "v", "w", "x", "y", "z"}

Upper == {"A", "B", "C", "D", "E", "F", "G", "H", "I", "J", "K", "L", "M",
          "N", "O", "P", "Q", "R", "S", "T", "U", "V", "W", "X", "Y", "Z"}

isWhitespace(ch) == ch \in {" ", "\t", "\n", "\r"}

isDigit(ch) == \E d \in 1..10 : Digits[d] = ch

isLetter(ch) == ch \in Lower \/ ch \in Upper

isAlphanumeric(ch) == isLetter(ch) \/ isDigit(ch) \/ ch = "_"

----------------------------------------------------------------------------
(* Format codes and byte orders, src/expr.go:612-657 *)

NativeOrder == "NativeOrder"
LittleEndian == "LittleEndian"
BigEndian == "BigEndian"

CodeSet == {"b", "B", "h", "H", "i", "I", "q", "Q"}

formatCodeInfo ==
  [c \in CodeSet |->
     CASE c = "b" -> [size |-> 1, signed |-> TRUE]
       [] c = "B" -> [size |-> 1, signed |-> FALSE]
       [] c = "h" -> [size |-> 2, signed |-> TRUE]
       [] c = "H" -> [size |-> 2, signed |-> FALSE]
       [] c = "i" -> [size |-> 4, signed |-> TRUE]
       [] c = "I" -> [size |-> 4, signed |-> FALSE]
       [] c = "q" -> [size |-> 8, signed |-> TRUE]
       [] c = "Q" -> [size |-> 8, signed |-> FALSE]]

(* The entry of formatCodeInfo for the string code: `s`, byte width 0 and  *)
(* no sign.  The table of src/expr.go stops at Q; the string code is the    *)
(* documented ninth entry.                                                 *)
StringCode == "s"

stringCodeInfo == [size |-> 0, signed |-> FALSE]

FormatCodeSet == CodeSet \cup {StringCode}

codeInfo(code) == IF code = StringCode THEN stringCodeInfo ELSE formatCodeInfo[code]

FormatCode(code, count) ==
  [Code |-> code, Size |-> codeInfo(code).size,
   Signed |-> codeInfo(code).signed, Count |-> count]

NoExpr == [err |-> TRUE, Order |-> NativeOrder, Formats |-> <<>>]

(* a nil Node *)
NoNode == [kind |-> "nil"]

----------------------------------------------------------------------------
(* strconv.Atoi on a run of decimal digits (the only strings the callers   *)
(* pass).  The range error of Atoi needs more digits than any input of     *)
(* the model has.                                                          *)

(* digit values counted from one: the prefix `1` then reads as 2 *)
DigitVal_OneBased(ch) == CHOOSE d \in 1..10 : Digits[d] = ch

DigitVal(ch) == (CHOOSE d \in 1..10 : Digits[d] = ch) - 1

RECURSIVE AtoiAcc(_, _)
AtoiAcc(s, acc) ==
  IF s = <<>> THEN acc ELSE AtoiAcc(Tail(s), acc * 10 + DigitVal(Head(s)))

Atoi(s) == [err |-> FALSE, val |-> AtoiAcc(s, 0)]

----------------------------------------------------------------------------
(* Parse, src/expr.go:676-746 *)

RECURSIVE DigitRunEnd(_, _)
DigitRunEnd(runes, i) ==
  IF i <= Len(runes) /\ isDigit(runes[i]) THEN DigitRunEnd(runes, i + 1) ELSE i

(* a count check that lets zero through *)
CountTooSmall_Negative(count) == count < 0

(* count < 1, src/expr.go:717 and 438 *)
CountTooSmall(count) == count < 1

(* count := 1, src/expr.go:704 and 429 *)
ParseDefaultCount == 1

RECURSIVE ParseLoop(_, _, _, _)
ParseLoop(runes, i, order, formats) ==
  IF i > Len(runes)
  THEN IF Len(formats) = 0 THEN NoExpr
       ELSE [err |-> FALSE, Order |-> order, Formats |-> formats]
  ELSE LET hasCount == isDigit(runes[i])
           j == IF hasCount THEN DigitRunEnd(runes, i) ELSE i
           cnt == IF hasCount THEN Atoi(SubSeq(runes, i, j - 1))
                  ELSE [err |-> FALSE, val |-> ParseDefaultCount]
       IN IF hasCount /\ (cnt.err \/ CountTooSmall(cnt.val)) THEN NoExpr
          ELSE IF j > Len(runes) THEN NoExpr
          ELSE IF runes[j] \notin FormatCodeSet THEN NoExpr
          ELSE ParseLoop(runes, j + 1, order,
                         Append(formats, FormatCode(runes[j], cnt.val)))

Parse(format) ==
  IF Len(format) = 0 THEN NoExpr
  ELSE LET first == format[1]
           order == CASE first = "<" -> LittleEndian
                      [] first = ">" -> BigEndian
                      [] OTHER -> NativeOrder
           start == IF first \in {"<", ">", "@"} THEN 2 ELSE 1
       IN ParseLoop(format, start, order, <<>>)

----------------------------------------------------------------------------
(* Tokens, src/expr.go:110-134.  Pos counts from 0 as in the source. *)

TokenEOF == "TokenEOF"
TokenPipe == "TokenPipe"
TokenLBrace == "TokenLBrace"
TokenRBrace == "TokenRBrace"
TokenLParen == "TokenLParen"
TokenRParen == "TokenRParen"
TokenColon == "TokenColon"
TokenArrow == "TokenArrow"
TokenComma == "TokenComma"
TokenNumber == "TokenNumber"
TokenIdent == "TokenIdent"
TokenFormat == "TokenFormat"
TokenOrder == "TokenOrder"

Token(type, value, pos) == [Type |-> type, Value |-> value, Pos |-> pos]

(* the zero Token{} *)
ZeroToken == Token(TokenEOF, <<>>, 0)

(* Tokenizer.skipWhitespace, src/expr.go:237-241 *)
RECURSIVE skipWhitespace(_, _)
skipWhitespace(in, pos) ==
  IF pos < Len(in) /\ isWhitespace(in[pos + 1]) THEN skipWhitespace(in, pos + 1)
  ELSE pos

(* Tokenizer.scanNumber, src/expr.go:244-249 *)
RECURSIVE scanNumberEnd(_, _)
scanNumberEnd(in, pos) ==
  IF pos < Len(in) /\ isDigit(in[pos + 1]) THEN scanNumberEnd(in, pos + 1)
  ELSE pos

(* a number scan that hands out the token and stays where it started *)
scanNumber_NoAdvance(in, startPos) ==
  LET end == scanNumberEnd(in, startPos)
  IN [err |-> FALSE, pos |-> startPos,
      tok |-> Token(TokenNumber, SubSeq(in, startPos + 1, end), startPos)]

scanNumber(in, startPos) ==
  LET end == scanNumberEnd(in, startPos)
  IN [err |-> FALSE, pos |-> end,
      tok |-> Token(TokenNumber, SubSeq(in, startPos + 1, end), startPos)]

(* Tokenizer.scanIdent, src/expr.go:252-257 *)
RECURSIVE scanIdentEnd(_, _)
scanIdentEnd(in, pos) ==
  IF pos < Len(in)
     /\ (isLetter(in[pos + 1]) \/ isDigit(in[pos + 1]) \/ in[pos + 1] = "_")
  THEN scanIdentEnd(in, pos + 1)
  ELSE pos

scanIdent(in, startPos) ==
  LET end == scanIdentEnd(in, startPos)
  IN [err |-> FALSE, pos |-> end,
      tok |-> Token(TokenIdent, SubSeq(in, startPos + 1, end), startPos)]

SingleCharType(ch) ==
  CASE ch = "|" -> TokenPipe
    [] ch = "{" -> TokenLBrace
    [] ch = "}" -> TokenRBrace
    [] ch = "(" -> TokenLParen
    [] ch = ")" -> TokenRParen
    [] ch = ":" -> TokenColon
    [] ch = "," -> TokenComma
    [] ch \in {"<", ">", "@"} -> TokenOrder

(* a lookahead that forgets the digit after a format code *)
FormatCodeFollowed_NoDigit(in, nextPos) ==
  \/ nextPos >= Len(in)
  \/ ~isAlphanumeric(in[nextPos + 1])
  \/ in[nextPos + 1] \in FormatCodeSet

(* src/expr.go:204-219: what follows a format-code letter lets it stand    *)
(* as a Format token                                                       *)
FormatCodeFollowed(in, nextPos) ==
  \/ nextPos >= Len(in)
  \/ ~isAlphanumeric(in[nextPos + 1])
  \/ in[nextPos + 1] \in FormatCodeSet
  \/ isDigit(in[nextPos + 1])

(* an arrow test that takes any character after the dash *)
ArrowAt_AnySecond(in, startPos) ==
  in[startPos + 1] = "-" /\ startPos + 1 < Len(in)

(* ch == '-' && t.pos+1 < len(t.input) && t.input[t.pos+1] == '>',        *)
(* src/expr.go:190                                                         *)
ArrowAt(in, startPos) ==
  in[startPos + 1] = "-" /\ startPos + 1 < Len(in) /\ in[startPos + 2] = ">"

(* Tokenizer.Next, src/expr.go:151-226, from position pos of input in;     *)
(* pos of the result is the position of the tokenizer afterwards.          *)
Next(in, pos) ==
  LET startPos == skipWhitespace(in, pos)
      ch == in[startPos + 1]
      one(type, n) ==
        [err |-> FALSE, pos |-> startPos + n,
         tok |-> Token(type, SubSeq(in, startPos + 1, startPos + n), startPos)]
  IN IF startPos >= Len(in)
     THEN [err |-> FALSE, pos |-> startPos, tok |-> Token(TokenEOF, <<>>, startPos)]
     ELSE IF ch \in {"|", "{", "}", "(", ")", ":", ",", "<", ">", "@"}
     THEN one(SingleCharType(ch), 1)
     ELSE IF ArrowAt(in, startPos)
     THEN one(TokenArrow, 2)
     ELSE IF isDigit(ch)
     THEN scanNumber(in, startPos)
     ELSE IF ch \in FormatCodeSet /\ FormatCodeFollowed(in, startPos + 1)
     THEN one(TokenFormat, 1)
     ELSE IF isLetter(ch) \/ ch = "_"
     THEN scanIdent(in, startPos)
     ELSE [err |-> TRUE, pos |-> startPos, tok |-> ZeroToken]

(* a Peek that leaves the position where Next put it *)
Peek_Consuming(in, pos) == Next(in, pos)

(* Tokenizer.Peek, src/expr.go:229-234: Next with the position restored *)
Peek(in, pos) == [Next(in, pos) EXCEPT !.pos = pos]

----------------------------------------------------------------------------
(* Nodes, src/expr.go:23-65.  A *ObjectNode that may be nil is a sequence  *)
(* of at most one node.                                                    *)

FormatNode(e) == [kind |-> "format", Order |-> e.Order, Formats |-> e.Formats]

PipeNode(left, right) == [kind |-> "pipe", Left |-> left, Right |-> right]

ObjectNode(fields) == [kind |-> "object", Fields |-> fields]

IndexFieldDef(index, name) == [Index |-> index, Name |-> name, Nested |-> <<>>]

NestedFieldDef(name, nested) == [Index |-> 0, Name |-> name, Nested |-> <<nested>>]

----------------------------------------------------------------------------
(* Parser, src/expr.go:276-610.  The parser state ps is the position of    *)
(* its tokenizer and its current token; every parse function returns the   *)
(* state it leaves behind, and err when it returns an error.               *)

ParseFail(ps) == [err |-> TRUE, node |-> NoNode, ps |-> ps]

ParseOk(n, ps) == [err |-> FALSE, node |-> n, ps |-> ps]

(* Parser.advance, src/expr.go:310-317: nx is what tokenizer.Next returned *)
Advanced(ps, nx) ==
  IF nx.err THEN [err |-> TRUE, ps |-> [pos |-> nx.pos, current |-> ps.current]]
  ELSE [err |-> FALSE, ps |-> [pos |-> nx.pos, current |-> nx.tok]]

advance(in, ps) == Advanced(ps, Next(in, ps.pos))

(* the loop of parseFormatExpr, src/expr.go:428-467 *)
RECURSIVE FormatLoop(_, _, _, _)

(* lines 458-460: a is the advance past the format code *)
FormatAppended(in, order, formats, a) ==
  IF a.err THEN ParseFail(a.ps)
  ELSE FormatLoop(in, a.ps, order, formats)

(* lines 450-460: the current token is the format code *)
FormatItem(in, ps, order, formats, count) ==
  FormatAppended(in, order, Append(formats, FormatCode(ps.current.Value[1], count)),
                 advance(in, ps))

(* lines 432-448: cnt is Atoi of the count prefix, a the advance past it *)
FormatCount(in, ps, order, formats, cnt, a) ==
  IF cnt.err \/ CountTooSmall(cnt.val) THEN ParseFail(ps)
  ELSE IF a.err THEN ParseFail(a.ps)
  ELSE IF a.ps.current.Type # TokenFormat THEN ParseFail(a.ps)
  ELSE FormatItem(in, a.ps, order, formats, cnt.val)

(* a format expression without format codes let through *)
NoFormats_Allowed(formats) == FALSE

(* len(expr.Formats) == 0, src/expr.go:463 *)
NoFormats(formats) == Len(formats) = 0

FormatLoop(in, ps, order, formats) ==
  IF ps.current.Type \notin {TokenFormat, TokenNumber}
  THEN IF NoFormats(formats) THEN ParseFail(ps)
       ELSE ParseOk(FormatNode([Order |-> order, Formats |-> formats]), ps)
  ELSE IF ps.current.Type = TokenNumber
  THEN FormatCount(in, ps, order, formats, Atoi(ps.current.Value), advance(in, ps))
  ELSE FormatItem(in, ps, order, formats, ParseDefaultCount)

(* lines 414-425: a is the advance past the byte order prefix *)
FormatOrdered(in, order, a) ==
  IF a.err THEN ParseFail(a.ps)
  ELSE FormatLoop(in, a.ps, order, <<>>)

(* lines 414-421 *)
OrderOfPrefix(value) ==
  CASE value = <<"<">> -> LittleEndian
    [] value = <<">">> -> BigEndian
    [] OTHER -> NativeOrder

(* Parser.parseFormatExpr, src/expr.go:406-468 *)
parseFormatExpr(in, ps) ==
  IF ps.current.Type = TokenOrder
  THEN FormatOrdered(in, OrderOfPrefix(ps.current.Value), advance(in, ps))
  ELSE FormatLoop(in, ps, NativeOrder, <<>>)

(* Parser.parseFunctionCall, src/expr.go:366-402, from its end backwards *)
(* lines 390-401: a is the advance past ')' *)
FunctionCallReturn(funcName, arg, a) ==
  IF a.err THEN ParseFail(a.ps)
  ELSE IF funcName = <<"p", "a", "r", "s", "e">> THEN ParseOk(arg.node, a.ps)
  ELSE ParseFail(a.ps)

(* lines 381-392: arg is what parseFormatExpr returned *)
FunctionCallArg(in, funcName, arg) ==
  IF arg.err THEN ParseFail(arg.ps)
  ELSE IF arg.ps.current.Type # TokenRParen THEN ParseFail(arg.ps)
  ELSE FunctionCallReturn(funcName, arg, advance(in, arg.ps))

(* lines 376-381: a is the advance past '(' *)
FunctionCallLParen(in, funcName, a) ==
  IF a.err THEN ParseFail(a.ps)
  ELSE FunctionCallArg(in, funcName, parseFormatExpr(in, a.ps))

(* lines 368-376: a is the advance past the function name *)
FunctionCallName(in, funcName, a) ==
  IF a.err THEN ParseFail(a.ps)
  ELSE IF a.ps.current.Type # TokenLParen THEN ParseFail(a.ps)
  ELSE FunctionCallLParen(in, funcName, advance(in, a.ps))

parseFunctionCall(in, ps) == FunctionCallName(in, ps.current.Value, advance(in, ps))

(* lines 353-361: nextTok is what tokenizer.Peek returned *)
PrimaryPeeked(in, ps, nextTok) ==
  IF nextTok.err THEN ParseFail(ps)
  ELSE IF nextTok.tok.Type = TokenLParen THEN parseFunctionCall(in, ps)
  ELSE parseFormatExpr(in, ps)

(* Parser.parsePrimary, src/expr.go:349-362 *)
parsePrimary(in, ps) ==
  IF ps.current.Type = TokenIdent THEN PrimaryPeeked(in, ps, Peek(in, ps.pos))
  ELSE parseFormatExpr(in, ps)

FieldFail(ps) == [err |-> TRUE, fd |-> IndexFieldDef(0, <<>>), ps |-> ps]

FieldOk(fd, ps) == [err |-> FALSE, fd |-> fd, ps |-> ps]

(* Parser.parseIndexField, src/expr.go:544-576, from its end backwards *)
(* lines 571-575: a is the advance past the field name *)
IndexFieldReturn(index, name, a) ==
  IF a.err THEN FieldFail(a.ps)
  ELSE FieldOk(IndexFieldDef(index, name), a.ps)

(* lines 560-571: a is the advance past '->' *)
IndexFieldArrow(in, index, a) ==
  IF a.err THEN FieldFail(a.ps)
  ELSE IF a.ps.current.Type \notin {TokenIdent, TokenFormat} THEN FieldFail(a.ps)
  ELSE IndexFieldReturn(index, a.ps.current.Value, advance(in, a.ps))

(* lines 549-560: index is Atoi of the number, a the advance past it *)
IndexFieldNumber(in, ps, index, a) ==
  IF index.err THEN FieldFail(ps)
  ELSE IF a.err THEN FieldFail(a.ps)
  ELSE IF a.ps.current.Type # TokenArrow THEN FieldFail(a.ps)
  ELSE IndexFieldArrow(in, index.val, advance(in, a.ps))

parseIndexField(in, ps) ==
  IF ps.current.Type # TokenNumber THEN FieldFail(ps)
  ELSE IndexFieldNumber(in, ps, Atoi(ps.current.Value), advance(in, ps))

RECURSIVE parseObject(_, _)

(* Parser.parseNestedField, src/expr.go:580-610, from its end backwards *)
(* lines 599-609: nestedNode is what parseObject returned *)
NestedFieldReturn(name, nestedNode) ==
  IF nestedNode.err THEN FieldFail(nestedNode.ps)
  ELSE FieldOk(NestedFieldDef(name, nestedNode.node), nestedNode.ps)

(* lines 594-599: a is the advance past ':' *)
NestedFieldColon(in, name, a) ==
  IF a.err THEN FieldFail(a.ps)
  ELSE NestedFieldReturn(name, parseObject(in, a.ps))

(* lines 587-594: a is the advance past the field name *)
NestedFieldName(in, name, a) ==
  IF a.err THEN FieldFail(a.ps)
  ELSE IF a.ps.current.Type # TokenColon THEN FieldFail(a.ps)
  ELSE NestedFieldColon(in, name, advance(in, a.ps))

parseNestedField(in, ps) ==
  IF ps.current.Type \notin {TokenIdent, TokenFormat} THEN FieldFail(ps)
  ELSE NestedFieldName(in, ps.current.Value, advance(in, ps))

(* lines 528-538: nextTok is what tokenizer.Peek returned *)
FieldItemPeeked(in, ps, nextTok) ==
  IF nextTok.err THEN FieldFail(ps)
  ELSE IF nextTok.tok.Type = TokenColon THEN parseNestedField(in, ps)
  ELSE parseIndexField(in, ps)

(* Parser.parseFieldItem, src/expr.go:524-539 *)
parseFieldItem(in, ps) ==
  IF ps.current.Type \in {TokenIdent, TokenFormat}
  THEN FieldItemPeeked(in, ps, Peek(in, ps.pos))
  ELSE parseIndexField(in, ps)

(* the loop of parseFieldList, src/expr.go:506-517 *)
RECURSIVE FieldListLoop(_, _, _)

(* lines 510-514: item is what parseFieldItem returned *)
FieldListItem(in, fields, item) ==
  IF item.err THEN [err |-> TRUE, fields |-> <<>>, ps |-> item.ps]
  ELSE FieldListLoop(in, item.ps, Append(fields, item.fd))

(* lines 507-510: a is the advance past ',' *)
FieldListComma(in, fields, a) ==
  IF a.err THEN [err |-> TRUE, fields |-> <<>>, ps |-> a.ps]
  ELSE FieldListItem(in, fields, parseFieldItem(in, a.ps))

FieldListLoop(in, ps, fields) ==
  IF ps.current.Type # TokenComma
  THEN [err |-> FALSE, fields |-> fields, ps |-> ps]
  ELSE FieldListComma(in, fields, advance(in, ps))

(* Parser.parseFieldList, src/expr.go:495-518 *)
parseFieldList(in, ps) == FieldListItem(in, <<>>, parseFieldItem(in, ps))

(* Parser.parseObject, src/expr.go:471-492, from its end backwards *)
(* lines 487-491: a is the advance past '}' *)
ObjectReturn(fields, a) ==
  IF a.err THEN ParseFail(a.ps)
  ELSE ParseOk(ObjectNode(fields), a.ps)

(* lines 479-487: fl is what parseFieldList returned *)
ObjectFields(in, fl) ==
  IF fl.err THEN ParseFail(fl.ps)
  ELSE IF fl.ps.current.Type # TokenRBrace THEN ParseFail(fl.ps)
  ELSE ObjectReturn(fl.fields, advance(in, fl.ps))

(* lines 475-479: a is the advance past '{' *)
ObjectLBrace(in, a) ==
  IF a.err THEN ParseFail(a.ps)
  ELSE ObjectFields(in, parseFieldList(in, a.ps))

parseObject(in, ps) ==
  IF ps.current.Type # TokenLBrace THEN ParseFail(ps)
  ELSE ObjectLBrace(in, advance(in, ps))

(* Parser.parsePipe, src/expr.go:325-346, from its end backwards *)
(* lines 337-342: right is what parseObject returned *)
PipeRight(left, right) ==
  IF right.err THEN ParseFail(right.ps)
  ELSE ParseOk(PipeNode(left.node, right.node), right.ps)

(* lines 333-337: a is the advance past '|' *)
PipeAdvanced(in, left, a) ==
  IF a.err THEN ParseFail(a.ps)
  ELSE PipeRight(left, parseObject(in, a.ps))

(* lines 326-345: left is what parsePrimary returned *)
PipeLeft(in, left) ==
  IF left.err THEN ParseFail(left.ps)
  ELSE IF left.ps.current.Type = TokenPipe
  THEN PipeAdvanced(in, left, advance(in, left.ps))
  ELSE left

parsePipe(in, ps) == PipeLeft(in, parsePrimary(in, ps))

(* Parser.parseExpression, src/expr.go:320-322 *)
parseExpression(in, ps) == parsePipe(in, ps)

(* NewParser and ParseExpression, src/expr.go:282-307 *)
NewParser == [pos |-> 0, current |-> ZeroToken]

(* lines 303-306: a is the first advance *)
ExpressionStart(in, a) ==
  IF a.err THEN ParseFail(a.ps) ELSE parseExpression(in, a.ps)

ParseExpression(in) == ExpressionStart(in, advance(in, NewParser))

----------------------------------------------------------------------------
(* encoding/binary as used by decode and decodeArray: an unsigned integer  *)
(* of n bytes as n base-256 digits, least significant first.               *)

(* a little-endian read that takes the bytes in big-endian order *)
LittleEndianUint_AsBig(buf, off, n) == [d \in 1..n |-> buf[off + n + 1 - d]]

LittleEndianUint(buf, off, n) == [d \in 1..n |-> buf[off + d]]

(* a big-endian read that takes the bytes in little-endian order *)
BigEndianUint_AsLittle(buf, off, n) == [d \in 1..n |-> buf[off + d]]

BigEndianUint(buf, off, n) == [d \in 1..n |-> buf[off + n + 1 - d]]

OrderUint(order, buf, off, n) ==
  IF order = BigEndian THEN BigEndianUint(buf, off, n)
  ELSE LittleEndianUint(buf, off, n)

(* nativeEndian, src/expr.go:857-863: the order of the host *)
nativeEndian(h) == h

(* a native order that is always little-endian, whatever the host *)
binaryOrder_NativeIsLittle(e, h) ==
  IF e.Order = BigEndian THEN BigEndian ELSE LittleEndian

(* Expr.binaryOrder, src/expr.go:845-854 *)
binaryOrder(e, h) ==
  CASE e.Order = LittleEndian -> LittleEndian
    [] e.Order = BigEndian -> BigEndian
    [] OTHER -> nativeEndian(h)

(* 2^(8n) - u on n digits: the magnitude of a negative two's-complement    *)
(* word u.                                                                 *)
RECURSIVE NegateFrom(_, _, _)
NegateFrom(u, d, carry) ==
  IF d > Len(u) THEN <<>>
  ELSE LET t == (255 - u[d]) + carry
       IN <<t % 256>> \o NegateFrom(u, d + 1, t \div 256)

Negate(u) == NegateFrom(u, 1, 1)

(* a conversion that keeps the word as it is, sign bit included *)
SignedOf_AsUnsigned(type, u) == [type |-> type, neg |-> FALSE, mag |-> u]

(* the Go conversions intN(x) of an unsigned word and the plain uintN *)
SignedOf(type, u) ==
  IF u[Len(u)] >= 128 THEN [type |-> type, neg |-> TRUE, mag |-> Negate(u)]
  ELSE [type |-> type, neg |-> FALSE, mag |-> u]

UnsignedOf(type, u) == [type |-> type, neg |-> FALSE, mag |-> u]

NoValue == [type |-> "nil", neg |-> FALSE, mag |-> <<>>]

(* FormatCode.decode, src/expr.go:866-887 *)
decode(fc, buf, order) ==
  CASE fc.Code = "b" -> [err |-> FALSE, val |-> SignedOf("int8", <<buf[1]>>)]
    [] fc.Code = "B" -> [err |-> FALSE, val |-> UnsignedOf("uint8", <<buf[1]>>)]
    [] fc.Code = "h" -> [err |-> FALSE, val |-> SignedOf("int16", OrderUint(order, buf, 0, 2))]
    [] fc.Code = "H" -> [err |-> FALSE, val |-> UnsignedOf("uint16", OrderUint(order, buf, 0, 2))]
    [] fc.Code = "i" -> [err |-> FALSE, val |-> SignedOf("int32", OrderUint(order, buf, 0, 4))]
    [] fc.Code = "I" -> [err |-> FALSE, val |-> UnsignedOf("uint32", OrderUint(order, buf, 0, 4))]
    [] fc.Code = "q" -> [err |-> FALSE, val |-> SignedOf("int64", OrderUint(order, buf, 0, 8))]
    [] fc.Code = "Q" -> [err |-> FALSE, val |-> UnsignedOf("uint64", OrderUint(order, buf, 0, 8))]
    [] OTHER -> [err |-> TRUE, val |-> NoValue]

(* a read that hands out the bytes without moving the cursor *)
ReadFull_NoAdvance(s, p, n) ==
  IF Len(s) - p >= n
  THEN [err |-> FALSE, buf |-> SubSeq(s, p + 1, p + n), pos |-> p]
  ELSE [err |-> TRUE, buf |-> <<>>, pos |-> Len(s)]

(* io.ReadFull on the byte source: n bytes from the cursor or an error;    *)
(* a short read drains the source.                                         *)
ReadFull(s, p, n) ==
  IF Len(s) - p >= n
  THEN [err |-> FALSE, buf |-> SubSeq(s, p + 1, p + n), pos |-> p + n]
  ELSE [err |-> TRUE, buf |-> <<>>, pos |-> Len(s)]

(* element offsets that ignore the element size *)
ElemOffset_Unscaled(e, size) == e

(* the slice offsets buf[i*2:], buf[i*4:], buf[i*8:] of decodeArray *)
ElemOffset(e, size) == e * size

(* FormatCode.decodeArray, src/expr.go:785-842; val is the typed slice *)
decodeArray(fc, s, p, order, count) ==
  LET totalSize == fc.Size * count
      rd == ReadFull(s, p, totalSize)
      buf == rd.buf
      arr(type, elem(_)) ==
        [err |-> FALSE, pos |-> rd.pos,
         val |-> [type |-> type, elems |-> [e \in 1..count |-> elem(e - 1)]]]
      b(e) == SignedOf("int8", <<buf[e + 1]>>)
      B(e) == UnsignedOf("uint8", <<buf[e + 1]>>)
      h(e) == SignedOf("int16", OrderUint(order, buf, ElemOffset(e, 2), 2))
      H(e) == UnsignedOf("uint16", OrderUint(order, buf, ElemOffset(e, 2), 2))
      i(e) == SignedOf("int32", OrderUint(order, buf, ElemOffset(e, 4), 4))
      I(e) == UnsignedOf("uint32", OrderUint(order, buf, ElemOffset(e, 4), 4))
      q(e) == SignedOf("int64", OrderUint(order, buf, ElemOffset(e, 8), 8))
      Q(e) == UnsignedOf("uint64", OrderUint(order, buf, ElemOffset(e, 8), 8))
  IN IF rd.err THEN [err |-> TRUE, pos |-> rd.pos, val |-> NoValue]
     ELSE CASE fc.Code = "b" -> arr("[]int8", b)
            [] fc.Code = "B" -> arr("[]uint8", B)
            [] fc.Code = "h" -> arr("[]int16", h)
            [] fc.Code = "H" -> arr("[]uint16", H)
            [] fc.Code = "i" -> arr("[]int32", i)
            [] fc.Code = "I" -> arr("[]uint32", I)
            [] fc.Code = "q" -> arr("[]int64", q)
            [] fc.Code = "Q" -> arr("[]uint64", Q)
            [] OTHER -> [err |-> TRUE, pos |-> rd.pos, val |-> NoValue]

(* A decoded string: the bytes of a Go string *)
StringValue(buf) == [type |-> "string", str |-> buf]

(* The bytes a string may hold: printable characters, tab and newline;    *)
(* the bytes of multi-byte UTF-8 characters (0x80 and above) pass.        *)
isStringByte(b) == (b >= 32 /\ b # 127) \/ b \in {9, 10}

(* a string reader that leaves the terminator in the source *)
StringTerminated_Unconsumed(p, buf) ==
  IF buf = <<>> THEN [err |-> TRUE, pos |-> p + 1, val |-> NoValue]
  ELSE [err |-> FALSE, pos |-> p, val |-> StringValue(buf)]

(* The terminator at cursor p ends the string; it is consumed and an      *)
(* empty string is an error.                                               *)
StringTerminated(p, buf) ==
  IF buf = <<>> THEN [err |-> TRUE, pos |-> p + 1, val |-> NoValue]
  ELSE [err |-> FALSE, pos |-> p + 1, val |-> StringValue(buf)]

(* a string reader that takes every byte *)
StringByte_Unchecked(b) == TRUE

(* A byte before the terminator is accepted or is a decode error *)
StringByte(b) == isStringByte(b)

(* readNullTerminatedString: bytes from cursor p up to a 0x00 byte or the *)
(* end of the source, one byte at a time; buf holds the bytes read so far *)
RECURSIVE readNullTerminatedString(_, _, _)
readNullTerminatedString(s, p, buf) ==
  IF p >= Len(s) THEN [err |-> FALSE, pos |-> p, val |-> StringValue(buf)]
  ELSE IF s[p + 1] = 0 THEN StringTerminated(p, buf)
  ELSE IF ~StringByte(s[p + 1]) THEN [err |-> TRUE, pos |-> p + 1, val |-> NoValue]
  ELSE readNullTerminatedString(s, p + 1, Append(buf, s[p + 1]))

(* One iteration of the loop of Expr.Read, src/expr.go:754-779; a string  *)
(* code reads a terminated string instead of a fixed width.               *)
ReadIter(fc, s, p, order) ==
  LET count == IF fc.Count = 0 THEN 1 ELSE fc.Count
  IN IF fc.Code = StringCode THEN readNullTerminatedString(s, p, <<>>)
     ELSE IF count = 1
     THEN LET rd == ReadFull(s, p, fc.Size)
              dv == decode(fc, rd.buf, order)
          IN IF rd.err THEN [err |-> TRUE, pos |-> rd.pos, val |-> NoValue]
             ELSE IF dv.err THEN [err |-> TRUE, pos |-> rd.pos, val |-> NoValue]
             ELSE [err |-> FALSE, pos |-> rd.pos, val |-> dv.val]
     ELSE decodeArray(fc, s, p, order, count)

(* an error that still hands back the values decoded so far *)
ReadFailure_Partial(vals) == [err |-> TRUE, kind |-> "values", val |-> vals]

(* What Read returns on an error and on success, src/expr.go:764,768,775,781 *)
ReadFailure(vals) == [err |-> TRUE, kind |-> "nil", val |-> <<>>]

ReadSuccess(vals) == [err |-> FALSE, kind |-> "values", val |-> vals]

(* Expr.Read, src/expr.go:750-782, run to completion from cursor p;        *)
(* pos is the cursor of the byte source afterwards.                        *)
RECURSIVE ReadFrom(_, _, _, _, _)
ReadFrom(e, s, p, order, vals) ==
  IF Len(vals) = Len(e.Formats)
  THEN [ret |-> ReadSuccess(vals), pos |-> p]
  ELSE LET it == ReadIter(e.Formats[Len(vals) + 1], s, p, order)
       IN IF it.err THEN [ret |-> ReadFailure(vals), pos |-> it.pos]
          ELSE ReadFrom(e, s, it.pos, order, Append(vals, it.val))

Read(e, s, p, h) == ReadFrom(e, s, p, binaryOrder(e, h), <<>>)

----------------------------------------------------------------------------
(* Eval, src/expr.go:29-97 *)

EvalFailure == [err |-> TRUE, kind |-> "nil", val |-> <<>>]

(* Object and ObjectField, src/expr.go:100-108 *)
ObjectField(name, value) == [Name |-> name, Value |-> value]

Object(fields) == [type |-> "object", Fields |-> fields]

(* fields appended in front of the ones built so far *)
AppendField_InFront(fields, f) == <<f>> \o fields

(* obj.Fields = append(obj.Fields, ...), src/expr.go:80,89 *)
AppendField(fields, f) == Append(fields, f)

(* a range check that also turns index 0 away *)
IndexOutOfRange_NoZero(index, n) == index <= 0 \/ index >= n

(* fd.Index < 0 || fd.Index >= len(values), src/expr.go:86 *)
IndexOutOfRange(index, n) == index < 0 \/ index >= n

(* a nested object that only sees the values after the first *)
NestedInput_Rest(vals) == IF vals = <<>> THEN vals ELSE Tail(vals)

(* the values handed to fd.Nested.Eval, src/expr.go:76 *)
NestedInput(vals) == vals

(* an error that still hands back the Object built so far *)
ObjectFailure_Partial(acc) == [err |-> TRUE, kind |-> "object", val |-> Object(acc)]

(* return nil, fmt.Errorf(...), src/expr.go:78,87: the fields built so    *)
(* far are dropped                                                         *)
ObjectFailure(acc) == EvalFailure

(* ObjectNode.Eval, src/expr.go:68-97; EvalFields is its loop *)
RECURSIVE ObjectNodeEval(_, _)
RECURSIVE EvalFields(_, _, _, _)

EvalFields(fields, i, vals, acc) ==
  IF i > Len(fields)
  THEN [err |-> FALSE, kind |-> "object", val |-> Object(acc)]
  ELSE LET fd == fields[i]
       IN IF fd.Nested # <<>>
          THEN LET nestedResult == ObjectNodeEval(fd.Nested[1], NestedInput(vals))
               IN IF nestedResult.err THEN ObjectFailure(acc)
                  ELSE EvalFields(fields, i + 1, vals,
                                  AppendField(acc, ObjectField(fd.Name, nestedResult.val)))
          ELSE IF IndexOutOfRange(fd.Index, Len(vals)) THEN ObjectFailure(acc)
          ELSE EvalFields(fields, i + 1, vals,
                          AppendField(acc, ObjectField(fd.Name, vals[fd.Index + 1])))

ObjectNodeEval(n, vals) == EvalFields(n.Fields, 1, vals, <<>>)

(* FormatNode.Eval, src/expr.go:29-31 *)
FormatNodeEval(n, s, p, h) == Read(n, s, p, h)

(* The encoder of the write stage: typed values back to bytes *)

IntTypes ==
  {"int8", "uint8", "int16", "uint16", "int32", "uint32", "int64", "uint64"}

SliceTypes ==
  {"[]int8", "[]uint8", "[]int16", "[]uint16", "[]int32", "[]uint32",
   "[]int64", "[]uint64"}

(* the two's-complement word of an integer value, least significant first *)
WordOf(v) == IF v.neg THEN Negate(v.mag) ELSE v.mag

(* an encoder that writes every word least significant byte first *)
PutUint_AsLittle(order, word) == word

(* the bytes of a word in the given byte order *)
PutUint(order, word) ==
  IF order = BigEndian THEN [d \in 1..Len(word) |-> word[Len(word) + 1 - d]]
  ELSE word

EncodeOk(buf) == [err |-> FALSE, buf |-> buf]

EncodeFail == [err |-> TRUE, buf |-> <<>>]

encodeInt(v, order) == PutUint(order, WordOf(v))

encodeSlice(v, order) ==
  Concat([e \in 1..Len(v.elems) |-> encodeInt(v.elems[e], order)])

(* a string encoder that writes no terminator *)
encodeString_Bare(v) == v.str

(* the bytes of the string and one terminator *)
encodeString(v) == v.str \o <<0>>

(* encodeValue: integers in their width and byte order, arrays element by *)
(* element, strings with their terminator, an Object as its field values  *)
(* in declared order; any other value is an error.                        *)
RECURSIVE encodeValue(_, _)
RECURSIVE encodeFields(_, _, _, _)

encodeFields(fields, i, order, acc) ==
  IF i > Len(fields) THEN EncodeOk(acc)
  ELSE IF encodeValue(fields[i].Value, order).err THEN EncodeFail
  ELSE encodeFields(fields, i + 1, order,
                    acc \o encodeValue(fields[i].Value, order).buf)

encodeValue(v, order) ==
  CASE v.type \in IntTypes -> EncodeOk(encodeInt(v, order))
    [] v.type \in SliceTypes -> EncodeOk(encodeSlice(v, order))
    [] v.type = "string" -> EncodeOk(encodeString(v))
    [] v.type = "object" -> encodeFields(v.Fields, 1, order, <<>>)
    [] OTHER -> EncodeFail

(* the values handed to a write stage, encoded one after the other *)
RECURSIVE encodeValues(_, _, _, _)
encodeValues(vals, i, order, acc) ==
  IF i > Len(vals) THEN EncodeOk(acc)
  ELSE IF encodeValue(vals[i], order).err THEN EncodeFail
  ELSE encodeValues(vals, i + 1, order, acc \o encodeValue(vals[i], order).buf)

(* WriteNode: the path of the file and the byte order captured from the   *)
(* originating Expr                                                        *)
WriteNode(path, order) == [kind |-> "write", Path |-> path, Order |-> order]

Paths == {"out.bin", "copy.bin"}

NoFile == [exists |-> FALSE, data |-> <<>>]

NoFiles == [f \in Paths |-> NoFile]

(* the file at path is created or truncated and holds data *)
WriteFile(fs, path, data) ==
  [fs EXCEPT ![path] = [exists |-> TRUE, data |-> data]]

(* a write stage that ends the pipeline with no value *)
WritePassed_Nothing(vals) == [err |-> FALSE, kind |-> "values", val |-> <<>>]

(* the value a write stage returns: the one it was given *)
WritePassed(vals) == [err |-> FALSE, kind |-> "values", val |-> vals]

(* WriteNode.Eval: encodes its input to the file at Path and returns the  *)
(* input unchanged                                                         *)
WriteNodeEval(n, vals, h) ==
  IF encodeValues(vals, 1, binaryOrder(n, h), <<>>).err THEN EvalFailure
  ELSE WritePassed(vals)

WriteNodeFiles(n, vals, h, fs) ==
  IF encodeValues(vals, 1, binaryOrder(n, h), <<>>).err THEN fs
  ELSE WriteFile(fs, n.Path, encodeValues(vals, 1, binaryOrder(n, h), <<>>).buf)

(* a pipe that hands its right side no values *)
PipeInput_Empty(leftValues) == <<>>

(* return n.Right.Eval(r, leftValues), src/expr.go:52: what Right is given *)
PipeInput(leftValues) == leftValues

(* Node.Eval by node kind; PipeNode.Eval is src/expr.go:40-53.  ret is the *)
(* returned pair and pos the cursor of the byte source afterwards.         *)
RECURSIVE Eval(_, _, _, _, _)
Eval(n, s, p, vals, h) ==
  CASE n.kind = "format" -> FormatNodeEval(n, s, p, h)
    [] n.kind = "object" -> [ret |-> ObjectNodeEval(n, vals), pos |-> p]
    [] n.kind = "pipe" ->
         LET leftResult == Eval(n.Left, s, p, vals, h)
         IN IF leftResult.ret.err THEN [ret |-> EvalFailure, pos |-> leftResult.pos]
            ELSE IF leftResult.ret.kind # "values"
            THEN [ret |-> EvalFailure, pos |-> leftResult.pos]
            ELSE Eval(n.Right, s, leftResult.pos, PipeInput(leftResult.ret.val), h)
    [] n.kind = "write" -> [ret |-> WriteNodeEval(n, vals, h), pos |-> p]

(* the files Eval leaves behind: only a write stage touches them, and a   *)
(* pipe runs its right side only after a left side that gave values       *)
RECURSIVE EvalFiles(_, _, _, _, _, _)
PipeFiles(n, s, h, leftResult, leftFiles) ==
  IF leftResult.ret.err \/ leftResult.ret.kind # "values" THEN leftFiles
  ELSE EvalFiles(n.Right, s, leftResult.pos, PipeInput(leftResult.ret.val), h,
                 leftFiles)

EvalFiles(n, s, p, vals, h, fs) ==
  CASE n.kind = "write" -> WriteNodeFiles(n, vals, h, fs)
    [] n.kind = "pipe" ->
         PipeFiles(n, s, h, Eval(n.Left, s, p, vals, h),
                   EvalFiles(n.Left, s, p, vals, h, fs))
    [] OTHER -> fs

----------------------------------------------------------------------------
(* Inputs of the decoder: format strings and byte sources *)

Hosts == {LittleEndian, BigEndian}

OrderPrefixes == {<<>>, <<"<">>, <<">">>, <<"@">>}

RECURSIVE NumeralOf(_)
NumeralOf(n) ==
  IF n < 10 THEN <<Digits[n + 1]>>
  ELSE NumeralOf(n \div 10) \o <<Digits[(n % 10) + 1]>>

CountPrefixes == {<<>>} \cup {NumeralOf(n) : n \in 1..MaxCount}

CodeItems(codes) == {p \o <<c>> : p \in CountPrefixes, c \in codes}

(* codes of every width and both signednesses, for multi-code formats *)
SeqCodes == {"b", "H", "i", "Q"}

FormatInputs ==
  {o \o Concat(items) : o \in OrderPrefixes,
                        items \in SeqsUpTo(CodeItems(SeqCodes), MaxFormats) \ {<<>>}}
  \cup {o \o item : o \in OrderPrefixes, item \in CodeItems(CodeSet)}

ScalarInputs == {o \o <<c>> : o \in OrderPrefixes, c \in CodeSet}

ByteVals == {0, 1, 2, 128, 255}

Seeds == SeqsUpTo(ByteVals, MaxSeed) \ {<<>>}

Cycle(seed, n) == [j \in 1..n |-> seed[((j - 1) % Len(seed)) + 1]]

ReadSeeds == {<<255, 1, 2>>, <<1, 2, 3, 4>>, <<128, 0>>}

ReadSources == {Cycle(seed, n) : seed \in ReadSeeds, n \in 0..MaxSrc}

(* sources of exactly the width of a one-code format *)
ScalarSources(in) ==
  {Cycle(seed, formatCodeInfo[in[Len(in)]].size) : seed \in Seeds}

NoResult == [err |-> FALSE, kind |-> "none", val |-> <<>>]

----------------------------------------------------------------------------
(* Expr.Read as a process: one step per format code *)

InitRead ==
  /\ \/ input \in FormatInputs /\ src \in ReadSources
     \/ input \in ScalarInputs /\ src \in ScalarSources(input)
  /\ host \in Hosts
  /\ expr = Parse(input)
  /\ node = NoNode
  /\ rpos = 0
  /\ idx = 1
  /\ values = <<>>
  /\ inVals = <<>>
  /\ result = NoResult
  /\ files = NoFiles
  /\ pc = "read"

(* the count == 1 branch, src/expr.go:760-770 *)
ReadScalar ==
  /\ pc = "read"
  /\ idx <= Len(expr.Formats)
  /\ expr.Formats[idx].Code # StringCode
  /\ (IF expr.Formats[idx].Count = 0 THEN 1 ELSE expr.Formats[idx].Count) = 1
  /\ LET it == ReadIter(expr.Formats[idx], src, rpos, binaryOrder(expr, host))
     IN /\ rpos' = it.pos
        /\ IF it.err
           THEN /\ result' = ReadFailure(values)
                /\ pc' = "done"
                /\ UNCHANGED <<idx, values>>
           ELSE /\ values' = Append(values, it.val)
                /\ idx' = idx + 1
                /\ UNCHANGED <<result, pc>>
  /\ UNCHANGED <<files, input, host, expr, node, src, inVals>>

(* the array branch, src/expr.go:771-778 *)
ReadArray ==
  /\ pc = "read"
  /\ idx <= Len(expr.Formats)
  /\ expr.Formats[idx].Code # StringCode
  /\ (IF expr.Formats[idx].Count = 0 THEN 1 ELSE expr.Formats[idx].Count) # 1
  /\ LET it == ReadIter(expr.Formats[idx], src, rpos, binaryOrder(expr, host))
     IN /\ rpos' = it.pos
        /\ IF it.err
           THEN /\ result' = ReadFailure(values)
                /\ pc' = "done"
                /\ UNCHANGED <<idx, values>>
           ELSE /\ values' = Append(values, it.val)
                /\ idx' = idx + 1
                /\ UNCHANGED <<result, pc>>
  /\ UNCHANGED <<files, input, host, expr, node, src, inVals>>

(* return values, nil, src/expr.go:781 *)
ReadReturn ==
  /\ pc = "read"
  /\ idx > Len(expr.Formats)
  /\ result' = ReadSuccess(values)
  /\ pc' = "done"
  /\ UNCHANGED <<files, input, host, expr, node, src, rpos, idx, values, inVals>>

NextRead == ReadScalar \/ ReadArray \/ ReadReturn

SpecRead == InitRead /\ [][NextRead]_vars

----------------------------------------------------------------------------
(* The integer a block of bytes denotes, as the claims state it *)

(* the coefficient of 256^k in the unsigned reading of the bytes *)
UDigit(order, bytes, k) ==
  IF order = LittleEndian THEN bytes[k + 1] ELSE bytes[Len(bytes) - k]

(* a + u = 2^(8 * Len(u)), digit by digit *)
RECURSIVE AddsToPowerFrom(_, _, _, _)
AddsToPowerFrom(a, u, d, carry) ==
  IF d > Len(u) THEN carry = 1
  ELSE /\ (a[d] + u[d] + carry) % 256 = 0
       /\ AddsToPowerFrom(a, u, d + 1, (a[d] + u[d] + carry) \div 256)

AddsToPower(a, u) == Len(a) = Len(u) /\ AddsToPowerFrom(a, u, 1, 0)

ScalarType(fc) ==
  CASE fc.Size = 1 -> IF fc.Signed THEN "int8" ELSE "uint8"
    [] fc.Size = 2 -> IF fc.Signed THEN "int16" ELSE "uint16"
    [] fc.Size = 4 -> IF fc.Signed THEN "int32" ELSE "uint32"
    [] fc.Size = 8 -> IF fc.Signed THEN "int64" ELSE "uint64"

ArrayType(fc) ==
  CASE fc.Size = 1 -> IF fc.Signed THEN "[]int8" ELSE "[]uint8"
    [] fc.Size = 2 -> IF fc.Signed THEN "[]int16" ELSE "[]uint16"
    [] fc.Size = 4 -> IF fc.Signed THEN "[]int32" ELSE "[]uint32"
    [] fc.Size = 8 -> IF fc.Signed THEN "[]int64" ELSE "[]uint64"

(* the value of a one- or two-byte integer as a number *)
IntOf(v) ==
  LET m == IF Len(v.mag) = 1 THEN v.mag[1] ELSE v.mag[1] + 256 * v.mag[2]
  IN IF v.neg THEN 0 - m ELSE m

RECURSIVE Pow256(_)
Pow256(n) == IF n = 0 THEN 1 ELSE 256 * Pow256(n - 1)

RECURSIVE ByteSum(_, _, _)
ByteSum(order, bytes, k) ==
  IF k = Len(bytes) THEN 0
  ELSE bytes[k + 1] * Pow256(IF order = LittleEndian THEN k ELSE Len(bytes) - 1 - k)
       + ByteSum(order, bytes, k + 1)

(* v is the integer that the Size bytes denote for code fc under order *)
Denotes(fc, order, bytes, v) ==
  LET w == fc.Size
      U == [d \in 1..w |-> UDigit(order, bytes, d - 1)]
      top == U[w] >= 128
  IN /\ Len(bytes) = w
     /\ v.type = ScalarType(fc)
     /\ Len(v.mag) = w
     /\ \A d \in 1..w : v.mag[d] \in 0..255
     /\ IF fc.Signed /\ top
        THEN /\ v.neg
             /\ AddsToPower(v.mag, U)
             /\ v.mag[w] < 128 \/ (v.mag[w] = 128 /\ \A d \in 1..(w - 1) : v.mag[d] = 0)
        ELSE /\ ~v.neg
             /\ v.mag = U
             /\ fc.Signed => v.mag[w] < 128
     /\ w <= 2 =>
          IntOf(v) = ByteSum(order, bytes, 0)
                       - (IF fc.Signed /\ top THEN Pow256(w) ELSE 0)

RECURSIVE PrefixBytes(_, _)
PrefixBytes(fmts, n) ==
  IF n = 0 THEN 0 ELSE PrefixBytes(fmts, n - 1) + fmts[n].Size * fmts[n].Count

(* the bytes of format code k when the codes are laid out back to back *)
Block(fmts, s, k) ==
  SubSeq(s, PrefixBytes(fmts, k - 1) + 1, PrefixBytes(fmts, k))

(* v is what format code fc denotes over its block *)
BlockDenotes(fc, order, block, v) ==
  IF fc.Count = 1 THEN Denotes(fc, order, block, v)
  ELSE /\ v.type = ArrayType(fc)
       /\ Len(v.elems) = fc.Count
       /\ \A e \in 1..fc.Count :
            Denotes(fc, order, SubSeq(block, (e - 1) * fc.Size + 1, e * fc.Size),
                    v.elems[e])

ReadOk == pc = "done" /\ ~result.err

EffectiveOrder == IF expr.Order = NativeOrder THEN host ELSE expr.Order

----------------------------------------------------------------------------
(* C1: for every scalar code and every explicit byte order, Read over      *)
(* exactly `width` bytes returns the integer those bytes denote: the       *)
(* little- or big-endian byte sum, unsigned codes in [0, 2^(8w)-1], signed *)
(* codes as the two's-complement reading; `<bH` over FF 01 02 gives int8   *)
(* -1 and uint16 513.                                                      *)
C1_ScalarDenotes ==
  /\ (/\ pc = "done"
      /\ expr.Order # NativeOrder
      /\ Len(expr.Formats) = 1
      /\ expr.Formats[1].Count = 1
      /\ Len(src) = expr.Formats[1].Size)
     => /\ ~result.err
        /\ result.kind = "values"
        /\ Len(result.val) = 1
        /\ Denotes(expr.Formats[1], expr.Order, src, result.val[1])
  /\ (pc = "done" /\ input = <<"<", "b", "H">> /\ src = <<255, 1, 2>>)
     => /\ ~result.err
        /\ Len(result.val) = 2
        /\ result.val[1].type = "int8" /\ IntOf(result.val[1]) = 0 - 1
        /\ result.val[2].type = "uint16" /\ IntOf(result.val[2]) = 513

C1_Witness ==
  /\ ReadOk
  /\ input = <<">", "q">>
  /\ src = <<255, 1, 2, 255, 1, 2, 255, 1>>
  /\ result.val[1].neg

(* C2: a successful Read advances the source by exactly the sum of         *)
(* Size*Count; code k's bytes start right after code k-1's, no byte is     *)
(* read twice or skipped, and the bytes after the last code stay unread.   *)
C2_ReadAdvances ==
  /\ pc = "read" =>
       /\ Len(values) = idx - 1
       /\ rpos = PrefixBytes(expr.Formats, idx - 1)
       /\ \A k \in 1..(idx - 1) :
            BlockDenotes(expr.Formats[k], EffectiveOrder,
                         Block(expr.Formats, src, k), values[k])
  /\ ReadOk =>
       /\ rpos = PrefixBytes(expr.Formats, Len(expr.Formats))
       /\ rpos <= Len(src)
       /\ \A k \in 1..Len(expr.Formats) :
            BlockDenotes(expr.Formats[k], EffectiveOrder,
                         Block(expr.Formats, src, k), result.val[k])

C2_Witness ==
  /\ ReadOk
  /\ Len(expr.Formats) = 2
  /\ expr.Formats[1].Count = 2
  /\ 0 < rpos /\ rpos < Len(src)

(* C3: when a format code is reached and the source holds fewer than       *)
(* Size*Count bytes, Read returns an error and no value sequence at all,   *)
(* also when earlier codes decoded successfully.                           *)
C3_ShortReadFails ==
  (pc = "done" /\ Len(src) < PrefixBytes(expr.Formats, Len(expr.Formats)))
    => /\ result.err
       /\ result.kind = "nil"
       /\ result.val = <<>>

C3_Witness ==
  /\ pc = "done"
  /\ result.err
  /\ Len(values) = 1
  /\ rpos = Len(src)
  /\ Len(src) > PrefixBytes(expr.Formats, 1)

(* C4: a code with count n > 1 contributes exactly one value, an array of  *)
(* n elements of the code's scalar type, element k decoded from bytes      *)
(* [k*Size, (k+1)*Size) of its block; the result has one value per code.   *)
C4_ArrayIsOneValue ==
  ReadOk =>
    /\ Len(result.val) = Len(expr.Formats)
    /\ \A k \in 1..Len(expr.Formats) :
         LET fc == expr.Formats[k]
             v == result.val[k]
             block == Block(expr.Formats, src, k)
         IN IF fc.Count > 1
            THEN /\ v.type = ArrayType(fc)
                 /\ Len(v.elems) = fc.Count
                 /\ \A e \in 0..(fc.Count - 1) :
                      Denotes(fc, EffectiveOrder,
                              SubSeq(block, e * fc.Size + 1, (e + 1) * fc.Size),
                              v.elems[e + 1])
            ELSE v.type = ScalarType(fc)

C4_Witness ==
  /\ ReadOk
  /\ Len(expr.Formats) = 2
  /\ expr.Formats[2].Count = 2
  /\ expr.Formats[2].Size = 4
  /\ expr.Order = BigEndian

----------------------------------------------------------------------------
(* Inputs of the object stage: field definitions and expression texts *)

MaxNodes == 3
MaxIndex == 2
MaxText == 4

(* the field lists with exactly n FieldDefs in all, nested ones included *)
RECURSIVE Forests(_, _, _, _)
Forests(n, idxs, names, minChild) ==
  IF n = 0 THEN {<<>>}
  ELSE {<<IndexFieldDef(i, nm)>> \o rest :
          i \in idxs, nm \in names, rest \in Forests(n - 1, idxs, names, minChild)}
       \cup UNION {
          {<<NestedFieldDef(nm, ObjectNode(child))>> \o rest :
             nm \in names, child \in Forests(j, idxs, names, minChild),
             rest \in Forests(n - 1 - j, idxs, names, minChild)} :
          j \in minChild..(n - 1)}

ObjectNodes(lo, hi, idxs, names, minChild) ==
  {ObjectNode(f) : f \in UNION {Forests(n, idxs, names, minChild) : n \in lo..hi}}

RECURSIVE ObjText(_)
RECURSIVE FieldsText(_)
FieldText(fd) ==
  IF fd.Nested = <<>>
  THEN NumeralOf(fd.Index) \o <<" ", "-", ">", " ">> \o fd.Name
  ELSE fd.Name \o <<":", " ">> \o ObjText(fd.Nested[1])

FieldsText(fields) ==
  IF Len(fields) = 1 THEN FieldText(fields[1])
  ELSE FieldText(fields[1]) \o <<",", " ">> \o FieldsText(Tail(fields))

ObjText(o) == <<"{">> \o FieldsText(o.Fields) \o <<"}">>

FieldNames == {<<"k", "e", "y">>, <<"v">>}

(* objects built directly, as a caller of ObjectNode.Eval may *)
BuiltObjects == ObjectNodes(0, MaxNodes, (0 - 1)..MaxIndex, FieldNames, 0)

(* objects the parser can produce *)
TextObjects == ObjectNodes(1, MaxNodes, 0..MaxIndex, FieldNames, 1)

SmallObjects == ObjectNodes(1, 1, 0..MaxIndex, FieldNames, 1)

ExprFormats == {<<"<", "b", "H">>, <<"2", "B">>, <<">", "h", "b", "B">>}

PipeText == <<" ", "|", " ">>

FormatOnlyInputs == ExprFormats

SingleObjectInputs == {f \o PipeText \o ObjText(o) : f \in ExprFormats, o \in TextObjects}

DoubleObjectInputs ==
  {f \o PipeText \o ObjText(o1) \o PipeText \o ObjText(o2) :
     f \in ExprFormats, o1 \in SmallObjects, o2 \in SmallObjects}

ExprInputs == FormatOnlyInputs \cup SingleObjectInputs \cup DoubleObjectInputs

ExprSources == {<<255, 1, 2>>, <<255, 1, 2, 3>>, <<1>>}

(* three distinct decoded values: int8 -1, uint16 513, []uint8{3, 4} *)
SampleValues ==
  Read(Parse(<<"<", "b", "H", "2", "B">>), <<255, 1, 2, 3, 4>>, 0, LittleEndian).ret.val

ValueSeqs == {SubSeq(SampleValues, 1, n) : n \in 0..Len(SampleValues)}

ParseAlphabet == {"<", "@", "0", "1", "b", "H", "q"}

ParseInputs == SeqsUpTo(ParseAlphabet, MaxText)

----------------------------------------------------------------------------
(* ObjectNode.Eval called on a directly built node *)

InitObject ==
  /\ input = <<>>
  /\ host = LittleEndian
  /\ expr = NoExpr
  /\ node \in BuiltObjects
  /\ src = <<>>
  /\ rpos = 0
  /\ idx = 1
  /\ values = <<>>
  /\ inVals \in ValueSeqs
  /\ result = NoResult
  /\ files = NoFiles
  /\ pc = "object"

ObjectEval ==
  /\ pc = "object"
  /\ result' = ObjectNodeEval(node, inVals)
  /\ pc' = "done"
  /\ UNCHANGED <<files, input, host, expr, node, src, rpos, idx, values, inVals>>

NextObject == ObjectEval

SpecObject == InitObject /\ [][NextObject]_vars

----------------------------------------------------------------------------
(* Execute, src/expr.go:890-901: ParseExpression, then Eval of the root.   *)
(* A pipe is evaluated in its two halves, src/expr.go:40-53.               *)

InitExpr ==
  /\ input \in ExprInputs
  /\ host \in Hosts
  /\ expr = NoExpr
  /\ node = NoNode
  /\ src \in ExprSources
  /\ rpos = 0
  /\ idx = 1
  /\ values = <<>>
  /\ inVals = <<>>
  /\ result = NoResult
  /\ files = NoFiles
  /\ pc = "parse"

ParseExpr ==
  /\ pc = "parse"
  /\ LET r == ParseExpression(input)
     IN IF r.err
        THEN /\ node' = NoNode
             /\ result' = EvalFailure
             /\ pc' = "done"
        ELSE /\ node' = r.node
             /\ result' = result
             /\ pc' = "eval"
  /\ UNCHANGED <<files, input, host, expr, src, rpos, idx, values, inVals>>

EvalFormat ==
  /\ pc = "eval"
  /\ node.kind = "format"
  /\ LET r == Eval(node, src, rpos, inVals, host)
     IN /\ result' = r.ret
        /\ rpos' = r.pos
  /\ pc' = "done"
  /\ UNCHANGED <<files, input, host, expr, node, src, idx, values, inVals>>

EvalLeft ==
  /\ pc = "eval"
  /\ node.kind = "pipe"
  /\ LET leftResult == Eval(node.Left, src, rpos, inVals, host)
     IN /\ rpos' = leftResult.pos
        /\ IF leftResult.ret.err \/ leftResult.ret.kind # "values"
           THEN /\ result' = EvalFailure
                /\ pc' = "done"
                /\ UNCHANGED values
           ELSE /\ values' = PipeInput(leftResult.ret.val)
                /\ pc' = "right"
                /\ UNCHANGED result
  /\ files' = EvalFiles(node.Left, src, rpos, inVals, host, files)
  /\ UNCHANGED <<input, host, expr, node, src, idx, inVals>>

EvalRight ==
  /\ pc = "right"
  /\ LET r == Eval(node.Right, src, rpos, values, host)
     IN /\ result' = r.ret
        /\ rpos' = r.pos
  /\ files' = EvalFiles(node.Right, src, rpos, values, host, files)
  /\ pc' = "done"
  /\ UNCHANGED <<input, host, expr, node, src, idx, values, inVals>>

NextExpr == ParseExpr \/ EvalFormat \/ EvalLeft \/ EvalRight

SpecExpr == InitExpr /\ [][NextExpr]_vars

----------------------------------------------------------------------------
(* Parse and ParseExpression called on the same text *)

InitParse ==
  /\ input \in ParseInputs
  /\ host = LittleEndian
  /\ expr = NoExpr
  /\ node = NoNode
  /\ src = <<>>
  /\ rpos = 0
  /\ idx = 1
  /\ values = <<>>
  /\ inVals = <<>>
  /\ result = NoResult
  /\ files = NoFiles
  /\ pc = "Parse"

CallParse ==
  /\ pc = "Parse"
  /\ expr' = Parse(input)
  /\ pc' = "ParseExpression"
  /\ UNCHANGED <<files, input, host, node, src, rpos, idx, values, inVals, result>>

CallParseExpression ==
  /\ pc = "ParseExpression"
  /\ LET r == ParseExpression(input)
     IN /\ node' = r.node
        /\ result' = [err |-> r.err, kind |-> IF r.err THEN "nil" ELSE "node", val |-> <<>>]
  /\ pc' = "done"
  /\ UNCHANGED <<files, input, host, expr, src, rpos, idx, values, inVals>>

NextParse == CallParse \/ CallParseExpression

SpecParse == InitParse /\ [][NextParse]_vars

----------------------------------------------------------------------------
(* C5: evaluating `F | {fields}` returns an Object with exactly one field  *)
(* per FieldDef in declaration order (not index order); field k carries    *)
(* the k-th name and, for an index field, the value at that index of the   *)
(* sequence decoded by F; `{1 -> v, 0 -> key}` yields v then key.          *)
C5_FieldsInDeclarationOrder ==
  /\ (pc = "done" /\ ~result.err /\ input \in SingleObjectInputs) =>
       LET defs == node.Right.Fields
           decoded == Read(node.Left, src, 0, host).ret.val
       IN /\ node.kind = "pipe"
          /\ values = decoded
          /\ result.kind = "object"
          /\ Len(result.val.Fields) = Len(defs)
          /\ \A k \in 1..Len(defs) :
               /\ result.val.Fields[k].Name = defs[k].Name
               /\ defs[k].Nested = <<>> =>
                    result.val.Fields[k].Value = decoded[defs[k].Index + 1]
  /\ (/\ pc = "done"
      /\ src = <<255, 1, 2>>
      /\ input = <<"<", "b", "H">> \o PipeText
                   \o <<"{", "1", " ", "-", ">", " ", "v", ",", " ",
                        "0", " ", "-", ">", " ", "k", "e", "y", "}">>) =>
       /\ ~result.err
       /\ Len(result.val.Fields) = 2
       /\ result.val.Fields[1].Name = <<"v">>
       /\ result.val.Fields[1].Value.type = "uint16"
       /\ IntOf(result.val.Fields[1].Value) = 513
       /\ result.val.Fields[2].Name = <<"k", "e", "y">>
       /\ result.val.Fields[2].Value.type = "int8"
       /\ IntOf(result.val.Fields[2].Value) = 0 - 1

C5_Witness ==
  /\ pc = "done"
  /\ ~result.err
  /\ input \in SingleObjectInputs
  /\ Len(node.Right.Fields) = 2
  /\ node.Right.Fields[1].Nested = <<>> /\ node.Right.Fields[1].Index = 1
  /\ node.Right.Fields[2].Nested = <<>> /\ node.Right.Fields[2].Index = 0
  /\ node.Right.Fields[1].Name # node.Right.Fields[2].Name

(* the indexes of the index fields of a field list, at every depth *)
RECURSIVE IndexesOf(_)
IndexesOf(fields) ==
  UNION {IF fields[k].Nested = <<>> THEN {fields[k].Index}
         ELSE IndexesOf(fields[k].Nested[1].Fields) : k \in 1..Len(fields)}

(* C6: ObjectNode.Eval fails, returning no Object, if and only if some     *)
(* index field at any nesting depth has an index outside                   *)
(* 0 <= i < len(inputValues).                                              *)
C6_FailsIffIndexOutOfRange ==
  pc = "done" =>
    /\ result.err <=> (\E i \in IndexesOf(node.Fields) : i < 0 \/ i >= Len(inVals))
    /\ result.err => result.kind = "nil"
    /\ ~result.err => result.kind = "object"

C6_Witness ==
  /\ pc = "done"
  /\ result.err
  /\ Len(inVals) = 2
  /\ Len(node.Fields) = 2
  /\ node.Fields[1].Nested = <<>> /\ node.Fields[1].Index = 0
  /\ node.Fields[2].Nested # <<>>
  /\ IndexesOf(node.Fields[2].Nested[1].Fields) = {2}

(* the fields of an Object follow the definitions, every index field at    *)
(* every depth holding vals[index]                                         *)
RECURSIVE Conforms(_, _, _)
Conforms(defs, fields, vals) ==
  /\ Len(fields) = Len(defs)
  /\ \A k \in 1..Len(defs) :
       /\ fields[k].Name = defs[k].Name
       /\ IF defs[k].Nested = <<>>
          THEN fields[k].Value = vals[defs[k].Index + 1]
          ELSE /\ fields[k].Value.type = "object"
               /\ Conforms(defs[k].Nested[1].Fields, fields[k].Value.Fields, vals)

(* C7: a nested object is evaluated against the same, full input sequence  *)
(* as its parent: index i at any depth denotes inputValues[i], indexes are *)
(* not consumed or renumbered, and fields sharing an index get the same    *)
(* value.                                                                  *)
C7_NestedSeesFullInput ==
  (pc = "done" /\ ~result.err) => Conforms(node.Fields, result.val.Fields, inVals)

C7_Witness ==
  /\ pc = "done"
  /\ ~result.err
  /\ Len(inVals) = 3
  /\ Len(node.Fields) = 2
  /\ node.Fields[1].Nested = <<>> /\ node.Fields[1].Index = 1
  /\ node.Fields[2].Nested # <<>>
  /\ IndexesOf(node.Fields[2].Nested[1].Fields) = {1}
  /\ result.val.Fields[2].Value.Fields[1].Value = result.val.Fields[1].Value

(* C8: every expression `F | {...} | {...}` is rejected: ParseExpression   *)
(* or the following Eval returns an error and no Object is produced.       *)
C8_DoubleObjectRejected ==
  (pc = "done" /\ input \in DoubleObjectInputs) =>
    /\ result.err
    /\ result.kind # "object"

RECURSIVE AllZeroRun(_, _)
AllZeroRun(body, j) ==
  IF j > Len(body) \/ ~isDigit(body[j]) THEN TRUE
  ELSE body[j] = "0" /\ AllZeroRun(body, j + 1)

(* a format text (optional order prefix, then digits and code letters)     *)
(* with a count prefix whose value is 0                                    *)
ZeroCountInput(in) ==
  LET body == IF in # <<>> /\ in[1] \in {"<", ">", "@"} THEN Tail(in) ELSE in
  IN /\ \A j \in 1..Len(body) : isDigit(body[j]) \/ body[j] \in CodeSet
     /\ \E j \in 1..Len(body) :
          /\ isDigit(body[j])
          /\ j = 1 \/ ~isDigit(body[j - 1])
          /\ AllZeroRun(body, j)

(* C9: every Expr returned by Parse or ParseExpression has Count >= 1 in   *)
(* each FormatCode; a count prefix of value 0 (`0B`, `00B`, `b0H`) makes   *)
(* parsing fail.                                                           *)
C9_CountAtLeastOne ==
  /\ (pc # "Parse" /\ ~expr.err) =>
       \A k \in 1..Len(expr.Formats) : expr.Formats[k].Count >= 1
  /\ (pc = "done" /\ ~result.err) =>
       /\ node.kind = "format"
       /\ \A k \in 1..Len(node.Formats) : node.Formats[k].Count >= 1
  /\ ZeroCountInput(input) =>
       /\ pc # "Parse" => expr.err /\ expr.Formats = <<>>
       /\ pc = "done" => result.err /\ node = NoNode

C9_Witness ==
  /\ pc = "done"
  /\ input = <<"b", "0", "H">>
  /\ expr.err
  /\ result.err

(* the text with an explicit count 1 put before every code that has none *)
RECURSIVE WithOnesFrom(_, _)
WithOnesFrom(in, j) ==
  IF j > Len(in) THEN <<>>
  ELSE (IF in[j] \in CodeSet /\ (j = 1 \/ ~isDigit(in[j - 1]))
        THEN <<"1", in[j]>> ELSE <<in[j]>>) \o WithOnesFrom(in, j + 1)

WithOnes(in) == WithOnesFrom(in, 1)

(* the format codes of a text that carry no count prefix, by their rank *)
UnprefixedCodes(in) ==
  {Cardinality({i \in 1..j : in[i] \in CodeSet}) :
     j \in {i \in 1..Len(in) : in[i] \in CodeSet /\ (i = 1 \/ ~isDigit(in[i - 1]))}}

(* C10: a format code without count prefix and the same code with the     *)
(* prefix `1` are indistinguishable: both parse to Count 1 and both decode *)
(* over every source to the same scalar value, consuming the same bytes.   *)
C10_NoCountIsCountOne ==
  LET w == WithOnes(input)
      pw == Parse(w)
      bare == UnprefixedCodes(input)
  IN /\ ~expr.err
     /\ \A k \in bare : expr.Formats[k].Count = 1
     /\ (pc = "read" /\ idx = 1 /\ src = <<>>) =>
          \* the two parses of a text do not depend on the byte source
          /\ pw = expr
          /\ pw = expr
          /\ ParseExpression(w).node = FormatNode(expr)
          /\ ParseExpression(input).node = FormatNode(expr)
          /\ \A k \in bare : expr.Formats[k].Count = 1 /\ pw.Formats[k].Count = 1
     /\ pc = "done" =>
          LET r == Read(pw, src, 0, host)
          IN /\ r = [ret |-> result, pos |-> rpos]
             /\ ~result.err =>
                  \A k \in bare :
                    /\ result.val[k].type = ScalarType(expr.Formats[k])
                    /\ r.ret.val[k] = result.val[k]

C10_Witness ==
  /\ ReadOk
  /\ input = <<"b", "1", "H">>
  /\ WithOnes(input) = <<"1", "b", "1", "H">>
  /\ rpos = 3

----------------------------------------------------------------------------
(* the byte order a text asks for by its optional first character *)
PrefixOrder(in) ==
  IF in # <<>> /\ in[1] = "<" THEN LittleEndian
  ELSE IF in # <<>> /\ in[1] = ">" THEN BigEndian
  ELSE NativeOrder

Unprefixed(in) ==
  IF in # <<>> /\ in[1] \in {"<", ">", "@"} THEN Tail(in) ELSE in

(* the order the bytes are read in: the prefix's, the host's for native *)
OrderFor(in, h) == IF PrefixOrder(in) = NativeOrder THEN h ELSE PrefixOrder(in)

(* C11: the byte order of an expression is fixed by its optional first    *)
(* character and governs every format code, scalar or array: `<` reads    *)
(* little-endian, `>` big-endian, and `@` and no prefix are the same      *)
(* (same Order, same decoded values over every byte source).              *)
C11_OrderFixedByPrefix ==
  LET bare == Parse(Unprefixed(input))
      at == Parse(<<"@">> \o Unprefixed(input))
  IN /\ ~expr.err /\ expr.Order = PrefixOrder(input)
     /\ \A k \in 1..Len(values) :
          BlockDenotes(expr.Formats[k], OrderFor(input, host),
                       Block(expr.Formats, src, k), values[k])
     /\ (pc = "read" /\ idx = 1 /\ src = <<>>) =>
          /\ ~bare.err /\ at = bare /\ bare.Order = NativeOrder
          /\ bare.Formats = expr.Formats
          /\ ParseExpression(input).node = FormatNode(expr)
          /\ ParseExpression(<<"@">> \o Unprefixed(input)).node = FormatNode(bare)
     /\ pc = "done" =>
          /\ Read(at, src, 0, host) = Read(bare, src, 0, host)
          /\ Read(bare, src, 0, OrderFor(input, host)) = [ret |-> result, pos |-> rpos]

C11_Witness ==
  /\ ReadOk
  /\ input = <<"@", "2", "H">>
  /\ host = BigEndian
  /\ src[1] # src[2]
  /\ result.val[1].type = "[]uint16"
  /\ result.val[1].elems[1].mag = <<src[2], src[1]>>

----------------------------------------------------------------------------
(* The tokenizer drained by repeated Next, as a caller of NewTokenizer     *)
(* does: rpos is t.pos, values the tokens returned so far and inVals the   *)
(* token of the last Peek.                                                 *)

TokenAlphabet == {"b", "H", "s", "a", "4", "_", " ", "|"}

TokenExamples == {<<"b", "a", "r">>, <<"b", "H">>, <<"b", "4", "B">>}

ArrowAlphabet == {"-", ">", "x", "0", " "}

ArrowInputs == SeqsUpTo(ArrowAlphabet, MaxText)

TokenInputs ==
  SeqsUpTo(TokenAlphabet, MaxText) \cup TokenExamples \cup ArrowInputs

InitToken ==
  /\ input \in TokenInputs
  /\ host = LittleEndian
  /\ expr = NoExpr
  /\ node = NoNode
  /\ src = <<>>
  /\ rpos = 0
  /\ idx = 1
  /\ values = <<>>
  /\ inVals = <<>>
  /\ result = NoResult
  /\ files = NoFiles
  /\ pc = "next"

(* what the caller keeps of one Next, src/expr.go:151-226 *)
NextReturned(nx) ==
  /\ rpos' = nx.pos
  /\ IF nx.err
     THEN /\ result' = EvalFailure
          /\ pc' = "done"
          /\ UNCHANGED values
     ELSE /\ values' = Append(values, nx.tok)
          /\ pc' = IF nx.tok.Type = TokenEOF THEN "done" ELSE "next"
          /\ UNCHANGED result

TokenizerNext ==
  /\ pc = "next"
  /\ NextReturned(Next(input, rpos))
  /\ UNCHANGED <<files, input, host, expr, node, src, idx, inVals>>

(* Peek, src/expr.go:229-234: the position is put back *)
TokenizerPeek ==
  /\ pc = "next"
  /\ inVals' = <<Peek(input, rpos)>>
  /\ rpos' = Peek(input, rpos).pos
  /\ UNCHANGED <<files, input, host, expr, node, src, idx, values, result, pc>>

NextToken == TokenizerNext \/ TokenizerPeek

SpecToken == InitToken /\ [][NextToken]_vars

(* the claim's own reading of the character classes *)
ClaimCodes == {"b", "B", "h", "H", "i", "I", "q", "Q", "s"}

ClaimLetter(c) == c \in Lower \cup Upper

ClaimDigit(c) == \E j \in 1..10 : c = Digits[j]

ClaimIdentChar(c) == ClaimLetter(c) \/ ClaimDigit(c) \/ c = "_"

(* the tokens returned so far are classified as the claim says, where     *)
(* alnum tells whether the claim counts a character as alphanumeric        *)
TokensClassified(alnum(_)) ==
  /\ \A k \in 1..Len(values) :
       LET tok == values[k]
           p == tok.Pos + 1
       IN (tok.Type # TokenEOF /\ input[p] \in ClaimCodes) =>
            IF \/ p = Len(input)
               \/ ~alnum(input[p + 1])
               \/ input[p + 1] \in ClaimCodes
               \/ ClaimDigit(input[p + 1])
            THEN tok.Type = TokenFormat /\ tok.Value = <<input[p]>>
            ELSE LET e == p + Len(tok.Value) - 1
                 IN /\ tok.Type = TokenIdent
                    /\ Len(tok.Value) >= 2
                    /\ e <= Len(input)
                    /\ tok.Value = SubSeq(input, p, e)
                    /\ \A j \in p..e : ClaimIdentChar(input[j])
                    /\ e = Len(input) \/ ~ClaimIdentChar(input[e + 1])
  /\ (pc = "done" /\ result.err) => input[rpos + 1] \notin ClaimCodes
  /\ (pc = "done" /\ input = <<"b", "a", "r">>) =>
       values = <<Token(TokenIdent, <<"b", "a", "r">>, 0), Token(TokenEOF, <<>>, 3)>>
  /\ (pc = "done" /\ input = <<"b", "H">>) =>
       values = <<Token(TokenFormat, <<"b">>, 0), Token(TokenFormat, <<"H">>, 1),
                  Token(TokenEOF, <<>>, 2)>>
  /\ (pc = "done" /\ input = <<"b", "4", "B">>) =>
       values = <<Token(TokenFormat, <<"b">>, 0), Token(TokenNumber, <<"4">>, 1),
                  Token(TokenFormat, <<"B">>, 2), Token(TokenEOF, <<>>, 3)>>

ClaimAlphanumeric(c) == ClaimLetter(c) \/ ClaimDigit(c)

----------------------------------------------------------------------------
(* Execute on `parse(X)`, alone or followed by an object stage *)

CallAlphabet == {"<", "2", "b", "H"}

CallArgs == SeqsUpTo(CallAlphabet, MaxText)

CallTails == {<<>>, PipeText \o <<"{", "1", " ", "-", ">", " ", "v", "}">>}

CallText(x) == <<"p", "a", "r", "s", "e", "(">> \o x \o <<")">>

CallInputs == {CallText(x) \o t : x \in CallArgs, t \in CallTails}

InitCall ==
  /\ input \in CallInputs
  /\ host \in Hosts
  /\ expr = NoExpr
  /\ node = NoNode
  /\ src \in ExprSources
  /\ rpos = 0
  /\ idx = 1
  /\ values = <<>>
  /\ inVals = <<>>
  /\ result = NoResult
  /\ files = NoFiles
  /\ pc = "parse"

SpecCall == InitCall /\ [][NextExpr]_vars

(* the X of `parse(X)` and what follows the call *)
CloseParen(in) == CHOOSE j \in 1..Len(in) : in[j] = ")"

CallArg(in) == SubSeq(in, 7, CloseParen(in) - 1)

CallTail(in) == SubSeq(in, CloseParen(in) + 1, Len(in))

(* C13: `parse(X)` is equivalent to the bare X: ParseExpression accepts   *)
(* `parse(X)` exactly when it accepts X, both yield the same FormatNode    *)
(* (same Order, same Formats) and both evaluate to the same values over    *)
(* every byte source, alone or followed by `| {...}`.                      *)
C13_ParseCallIsBare ==
  LET bare == ParseExpression(CallArg(input) \o CallTail(input))
  IN /\ pc # "parse" => ((node = NoNode) <=> bare.err)
     /\ (pc # "parse" /\ node # NoNode) => node = bare.node
     /\ (pc = "done" /\ node # NoNode) =>
          [ret |-> result, pos |-> rpos] = Eval(bare.node, src, 0, <<>>, host)

----------------------------------------------------------------------------
(* Expr.Read over formats that hold the string code *)

MaxStr == 4

StringItems == {<<"B">>, <<"s">>}

StringExamples ==
  {<<"B", "s", "H">>, <<"2", "B", "s">>, <<"s", "2", "H">>, <<"s", "H">>}

StringPrefixes == {<<>>, <<"<">>}

StringInputs ==
  {o \o Concat(items) : o \in StringPrefixes,
                        items \in (SeqsUpTo(StringItems, MaxFormats) \ {<<>>})
                                  \cup {<<x>> : x \in StringExamples}}

(* terminator, bell, newline, 'h' *)
StringBytes == {0, 7, 10, 104}

StringSources ==
  SeqsUpTo(StringBytes, MaxStr)
  \cup {<<1, 104, 105, 0, 2, 3>>, <<1, 104, 2, 0>>, <<1, 104, 105, 0>>,
        <<228, 189, 160, 0>>, <<104, 1>>, <<104, 127, 0>>, <<127>>}

InitString ==
  /\ input \in StringInputs
  /\ src \in StringSources
  /\ host \in Hosts
  /\ expr = Parse(input)
  /\ node = NoNode
  /\ rpos = 0
  /\ idx = 1
  /\ values = <<>>
  /\ inVals = <<>>
  /\ result = NoResult
  /\ files = NoFiles
  /\ pc = "read"

(* the string branch of the loop of Expr.Read *)
ReadString ==
  /\ pc = "read"
  /\ idx <= Len(expr.Formats)
  /\ expr.Formats[idx].Code = StringCode
  /\ LET it == ReadIter(expr.Formats[idx], src, rpos, binaryOrder(expr, host))
     IN /\ rpos' = it.pos
        /\ IF it.err
           THEN /\ result' = ReadFailure(values)
                /\ pc' = "done"
                /\ UNCHANGED <<idx, values>>
           ELSE /\ values' = Append(values, it.val)
                /\ idx' = idx + 1
                /\ UNCHANGED <<result, pc>>
  /\ UNCHANGED <<files, input, host, expr, node, src, inVals>>

NextString == ReadString \/ ReadScalar \/ ReadArray \/ ReadReturn

SpecString == InitString /\ [][NextString]_vars

(* the 1-based place of the first 0x00 byte after cursor p, or one past   *)
(* the end of the source when there is none                                *)
TerminatorAt(s, p) ==
  IF \E j \in (p + 1)..Len(s) : s[j] = 0
  THEN CHOOSE j \in (p + 1)..Len(s) :
         s[j] = 0 /\ \A k \in (p + 1)..(j - 1) : s[k] # 0
  ELSE Len(s) + 1

AtStringCode ==
  pc = "read" /\ idx <= Len(expr.Formats) /\ expr.Formats[idx].Code = StringCode

ControlByte(b) == (b < 32 /\ b \notin {0, 9, 10}) \/ b = 127

(* the string at cursor p is empty or holds a control byte *)
StringRejected(s, p) ==
  /\ p < Len(s)
  /\ \/ s[p + 1] = 0
     \/ \E j \in (p + 1)..(TerminatorAt(s, p) - 1) : ControlByte(s[j])

(* a fixed-width code that has all its bytes in the source *)
AtFixedCodeWithBytes ==
  /\ pc = "read"
  /\ idx <= Len(expr.Formats)
  /\ expr.Formats[idx].Code # StringCode
  /\ Len(src) - rpos >= expr.Formats[idx].Size * expr.Formats[idx].Count

----------------------------------------------------------------------------
(* The encoder against the decoder: a value is encoded, and the bytes are *)
(* read back with the format code of its type                              *)

TypeCode ==
  [int8 |-> "b", uint8 |-> "B", int16 |-> "h", uint16 |-> "H",
   int32 |-> "i", uint32 |-> "I", int64 |-> "q", uint64 |-> "Q"]

IsZeroWord(w) == \A d \in 1..Len(w) : w[d] = 0

(* the words of size bytes that are the magnitude of a negative intN:     *)
(* 1 .. 2^(8*size-1)                                                       *)
NegativeMagnitude(w) ==
  /\ ~IsZeroWord(w)
  /\ \/ w[Len(w)] < 128
     \/ w[Len(w)] = 128 /\ \A d \in 1..(Len(w) - 1) : w[d] = 0

IntValues(code, seeds) ==
  LET fc == FormatCode(code, 1)
      words == {Cycle(seed, fc.Size) : seed \in seeds}
  IN {[type |-> ScalarType(fc), neg |-> FALSE, mag |-> w] :
        w \in {x \in words : ~fc.Signed \/ x[Len(x)] < 128}}
     \cup {[type |-> ScalarType(fc), neg |-> TRUE, mag |-> w] :
             w \in {x \in words : fc.Signed /\ NegativeMagnitude(x)}}

ElemSeeds == {<<b>> : b \in ByteVals} \cup {<<1, 2>>}

SliceValues(code) ==
  {[type |-> ArrayType(FormatCode(code, 2)), elems |-> <<a, b>>] :
     a \in IntValues(code, ElemSeeds), b \in IntValues(code, ElemSeeds)}

StringValues == {StringValue(b) : b \in SeqsUpTo(StringBytes, MaxStr)}

CodecValues ==
  UNION {IntValues(c, Seeds) \cup SliceValues(c) : c \in CodeSet}
  \cup StringValues

(* the format code that decodes a value of the type of v *)
CodeText(v) ==
  CASE v.type \in IntTypes -> <<TypeCode[v.type]>>
    [] v.type \in SliceTypes ->
         NumeralOf(Len(v.elems)) \o <<TypeCode[v.elems[1].type]>>
    [] v.type = "string" -> <<StringCode>>

InitCodec ==
  /\ inVals \in {<<v>> : v \in CodecValues}
  /\ input \in {o \o CodeText(inVals[1]) : o \in OrderPrefixes}
  /\ host \in Hosts
  /\ expr = Parse(input)
  /\ node = NoNode
  /\ src = <<>>
  /\ rpos = 0
  /\ idx = 1
  /\ values = <<>>
  /\ result = NoResult
  /\ files = NoFiles
  /\ pc = "encode"

(* encodeValue writes the value to the buffer that is then read back *)
EncodeValue ==
  /\ pc = "encode"
  /\ IF encodeValue(inVals[1], binaryOrder(expr, host)).err
     THEN /\ result' = EvalFailure
          /\ pc' = "done"
          /\ UNCHANGED src
     ELSE /\ src' = encodeValue(inVals[1], binaryOrder(expr, host)).buf
          /\ pc' = "read"
          /\ UNCHANGED result
  /\ UNCHANGED <<files, input, host, expr, node, rpos, idx, values, inVals>>

NextCodec == EncodeValue \/ ReadString \/ ReadScalar \/ ReadArray \/ ReadReturn

SpecCodec == InitCodec /\ [][NextCodec]_vars

DecodableString(v) ==
  /\ v.str # <<>>
  /\ \A j \in 1..Len(v.str) : v.str[j] # 0 /\ ~ControlByte(v.str[j])

RoundTripValue(v) == v.type = "string" => DecodableString(v)

----------------------------------------------------------------------------
(* Pipelines with a write stage, evaluated on the tree the parser builds  *)
(* for them: stages nest to the left, PipeNode(PipeNode(F, S1), S2)        *)

WriteBodies ==
  {<<"b", "H">>, <<"H">>, <<"2", "B">>, <<"2", "H">>, <<"B", "s">>, <<"s">>,
   <<"s", "H">>, <<"B", "s", "H">>}

WriteFormats == {o \o b : o \in OrderPrefixes, b \in WriteBodies}

WriteSources ==
  {<<255, 1, 2>>, <<1, 2>>, <<1, 2, 3, 4>>, <<1, 104, 105, 0>>, <<104, 105>>,
   <<104, 105, 0, 2, 3>>, <<1, 104, 105, 0, 2, 3>>, <<>>, <<0>>, <<104, 1>>,
   <<1>>, <<9, 0, 1, 2>>}

WriteNames == {<<"a">>}

WriteObjects ==
  ObjectNodes(1, 2, 0..1, WriteNames, 1)
  \cup {ObjectNode(<<IndexFieldDef(0, <<"a">>),
                     NestedFieldDef(<<"n">>, ObjectNode(<<IndexFieldDef(1, <<"b">>)>>)),
                     IndexFieldDef(2, <<"c">>)>>)}

(* the byte order a write stage captures: that of the format it follows *)
RECURSIVE OriginOrder(_)
OriginOrder(n) ==
  IF n.kind = "pipe" THEN OriginOrder(n.Left)
  ELSE IF n.kind = "format" THEN n.Order
  ELSE NativeOrder

(* left | write(path) *)
PipeWrite(left, path) == PipeNode(left, WriteNode(path, OriginOrder(left)))

WriteTrees(f) ==
  {PipeWrite(f, "out.bin")}
  \cup {PipeNode(f, o) : o \in WriteObjects}
  \cup {PipeWrite(PipeNode(f, o), "out.bin") : o \in WriteObjects}
  \cup {PipeNode(PipeWrite(f, "out.bin"), o) : o \in WriteObjects}
  \cup {PipeWrite(PipeWrite(f, "out.bin"), "copy.bin")}

(* a file that is already there before the pipeline runs *)
StaleFiles == [NoFiles EXCEPT !["out.bin"] = [exists |-> TRUE, data |-> <<7, 7, 7, 7, 7>>]]

InitWrite ==
  /\ input \in WriteFormats
  /\ host \in Hosts
  /\ expr = NoExpr
  /\ node \in WriteTrees(ParseExpression(input).node)
  /\ src \in WriteSources
  /\ rpos = 0
  /\ idx = 1
  /\ values = <<>>
  /\ inVals = <<>>
  /\ result = NoResult
  /\ files \in {NoFiles, StaleFiles}
  /\ pc = "eval"

NextWrite == EvalLeft \/ EvalRight

SpecWrite == InitWrite /\ [][NextWrite]_vars

(* the pipeline is F | write(path) and has run *)
FormatWritten ==
  /\ pc = "done"
  /\ node.Left.kind = "format"
  /\ node.Right.kind = "write"

(* the format of the pipeline decodes the source *)
FormatDecodes(f) == ~Read(f, src, 0, host).ret.err

(* every string code of fmts, read from cursor p on, finds its terminator *)
(* in the source                                                           *)
RECURSIVE StringsTerminated(_, _, _, _)
StringsTerminated(fmts, k, s, p) ==
  IF k > Len(fmts) THEN TRUE
  ELSE IF fmts[k].Code = StringCode
  THEN /\ TerminatorAt(s, p) <= Len(s)
       /\ StringsTerminated(fmts, k + 1, s, TerminatorAt(s, p))
  ELSE StringsTerminated(fmts, k + 1, s, p + fmts[k].Size * fmts[k].Count)

Consumed == SubSeq(src, 1, rpos)

RECURSIVE FlatIndices(_)
RECURSIVE FlatFieldIndices(_, _)
FlatFieldIndices(fields, i) ==
  IF i > Len(fields) THEN <<>>
  ELSE (IF fields[i].Nested # <<>> THEN FlatIndices(fields[i].Nested[1])
        ELSE <<fields[i].Index>>) \o FlatFieldIndices(fields, i + 1)

FlatIndices(o) == FlatFieldIndices(o.Fields, 1)

(* the fields name the n decoded values once each, in order *)
InOrder(o, n) == FlatIndices(o) = [k \in 1..n |-> k - 1]

IndicesInRange(o, n) ==
  \A k \in 1..Len(FlatIndices(o)) : FlatIndices(o)[k] < n

(* the encodings of the values at the given indices, one after the other *)
IndexedBytes(vals, idxs, order) ==
  Concat([k \in 1..Len(idxs) |-> encodeValue(vals[idxs[k] + 1], order).buf])

(* the pipeline is F | {...} and has run *)
ObjectBuilt ==
  /\ pc = "done"
  /\ node.Left.kind = "format"
  /\ node.Right.kind = "object"

(* the pipeline is F | {...} | write(path) and has run *)
ObjectWritten ==
  /\ pc = "done"
  /\ node.Left.kind = "pipe"
  /\ node.Left.Left.kind = "format"
  /\ node.Left.Right.kind = "object"
  /\ node.Right.kind = "write"

(* C18: the encoding of an Object is the encodings of its field values in *)
(* declared order, nested Objects in place, without the names; and        *)
(* F | {...} | write(path), over a source F decodes and with indices in    *)
(* range, succeeds and writes, when the fields name the decoded values     *)
(* once each in order, exactly the bytes F consumed.                       *)
C18_ObjectWrittenInOrder ==
  /\ (ObjectBuilt /\ ~result.err) =>
        encodeValue(result.val, binaryOrder(node.Left, host)) =
          EncodeOk(IndexedBytes(values, FlatIndices(node.Right),
                                binaryOrder(node.Left, host)))
  /\ (/\ ObjectWritten
      /\ FormatDecodes(node.Left.Left)
      /\ IndicesInRange(node.Left.Right, Len(node.Left.Left.Formats))) =>
        /\ ~result.err
        /\ files[node.Right.Path].exists
        /\ (/\ InOrder(node.Left.Right, Len(node.Left.Left.Formats))
            /\ StringsTerminated(node.Left.Left.Formats, 1, src, 0)) =>
             files[node.Right.Path].data = Consumed

(* the first half of C18 alone *)
ObjectEncodedInOrder ==
  (ObjectBuilt /\ ~result.err) =>
     encodeValue(result.val, binaryOrder(node.Left, host)) =
       EncodeOk(IndexedBytes(values, FlatIndices(node.Right),
                             binaryOrder(node.Left, host)))

(* the pipeline is X | write(path) and has run *)
StageWritten == pc = "done" /\ node.Right.kind = "write"

(* the pipeline is F | write(path) | {...} and has run *)
WrittenThenObject ==
  /\ pc = "done"
  /\ node.Left.kind = "pipe"
  /\ node.Left.Right.kind = "write"
  /\ node.Right.kind = "object"

(* C19: X | write(path) returns what X alone returns over the same bytes, *)
(* and F | write(path) | {...} returns what F | {...} returns.             *)
C19_WritePassesThrough ==
  /\ StageWritten =>
       [ret |-> result, pos |-> rpos] = Eval(node.Left, src, 0, <<>>, host)
  /\ WrittenThenObject =>
       [ret |-> result, pos |-> rpos] =
         Eval(PipeNode(node.Left.Left, node.Right), src, 0, <<>>, host)

(* C19 with X a format or another write pipeline *)
WritePassesValues ==
  /\ (StageWritten /\ ~ObjectWritten) =>
       [ret |-> result, pos |-> rpos] = Eval(node.Left, src, 0, <<>>, host)
  /\ WrittenThenObject =>
       [ret |-> result, pos |-> rpos] =
         Eval(PipeNode(node.Left.Left, node.Right), src, 0, <<>>, host)

----------------------------------------------------------------------------
(* The four entry points side by side: Parse and ParseExpression on a     *)
(* text, Expr.Read on a byte source, ObjectNode.Eval on a built node and   *)
(* Execute on an expression                                                *)

InitFail == InitParse \/ InitRead \/ InitObject \/ InitExpr \/ InitCall

NextFail == NextParse \/ NextRead \/ NextObject \/ NextExpr

SpecFail == InitFail /\ [][NextFail]_vars

(* C20: an error of Parse, ParseExpression, Expr.Read or Eval comes with  *)
(* a nil result: no Expr, no node, no decoded values, no Object.           *)
C20_NoPartialResult ==
  /\ result.err => (result.kind = "nil" /\ result.val = <<>>)
  /\ expr.err => expr = NoExpr
  /\ pc = "done" =>
       /\ Parse(input).err => Parse(input) = NoExpr
       /\ ParseExpression(input).err => ParseExpression(input).node = NoNode

(* Read fails on a short source after it has decoded a value *)
C20_Witness ==
  /\ pc = "done"
  /\ result.err
  /\ result.val = <<>>
  /\ Len(values) >= 1
  /\ idx = 2
  /\ rpos = Len(src)

----------------------------------------------------------------------------
(* the evaluation of the left side of the pipe at the root *)
LeftEval == Eval(node.Left, src, 0, <<>>, host)

LeftGivesValues == ~LeftEval.ret.err /\ LeftEval.ret.kind = "values"

----------------------------------------------------------------------------
(* the tokens a run of Next calls from position pos delivers, up to and   *)
(* with EOF, or up to a lex error                                          *)
RECURSIVE TokensFrom(_, _)
TokensRest(in, nx) ==
  IF nx.err THEN <<>>
  ELSE IF nx.tok.Type = TokenEOF THEN <<nx.tok>>
  ELSE <<nx.tok>> \o TokensFrom(in, nx.pos)

TokensFrom(in, pos) == TokensRest(in, Next(in, pos))

(* a step that is a Peek, and a step that is a Next *)
PeekStep == pc = "next" /\ pc' = "next" /\ values' = values

NextStep == pc = "next" /\ (pc' = "done" \/ values' # values)

(* the last Peek was made at the position the tokenizer is at *)
PeekedHere == inVals # <<>> /\ inVals[1].pos = rpos

(* C23: Peek returns what Next returns from the same position and leaves  *)
(* the position where it was; the Next after a Peek returns the token or   *)
(* the error the Peek returned, and with any Peeks in between the Next     *)
(* calls deliver the tokens of the input.                                  *)
C23_PeekDoesNotConsume ==
  /\ [][/\ PeekStep =>
             /\ rpos' = rpos
             /\ inVals'[1].err = Next(input, rpos).err
             /\ inVals'[1].tok = Next(input, rpos).tok
        /\ (NextStep /\ PeekedHere) =>
             IF inVals[1].err THEN result'.err /\ values' = values
             ELSE values' = Append(values, inVals[1].tok)]_vars
  /\ [](pc = "done" => values = TokensFrom(input, 0))

(* b4B peeked before every Next: Format b, Number 4, Format B, EOF *)
C23_Witness ==
  /\ input = <<"b", "4", "B">>
  /\ pc = "done"
  /\ Len(values) = 4
  /\ values[2].Type = TokenNumber
  /\ inVals # <<>>
  /\ inVals[1].tok.Type = TokenEOF
  /\ inVals[1].pos = 3

----------------------------------------------------------------------------
Blank(c) == c \in {" ", "\t", "\n", "\r"}

(* the first position from pos on that holds no blank, or the length *)
FirstNonBlank(in, pos) ==
  CHOOSE j \in pos..Len(in) :
    /\ \A k \in (pos + 1)..j : Blank(in[k])
    /\ j < Len(in) => ~Blank(in[j + 1])

(* the next character to tokenize is a dash, followed by `>` or not *)
AtDash == rpos < Len(input) /\ FirstNonBlank(input, rpos) < Len(input)
          /\ input[FirstNonBlank(input, rpos) + 1] = "-"

DashThenGreater ==
  /\ FirstNonBlank(input, rpos) + 2 <= Len(input)
  /\ input[FirstNonBlank(input, rpos) + 2] = ">"

(* C26: Next yields an Arrow token exactly for the two adjacent           *)
(* characters `->`; a dash followed by anything else, or by nothing, is a  *)
(* lex error and no token is produced for it.                              *)
C26_ArrowIsTwoCharacters ==
  [][NextStep =>
       /\ (AtDash /\ DashThenGreater) =>
            /\ values' = Append(values,
                                Token(TokenArrow, <<"-", ">">>,
                                      FirstNonBlank(input, rpos)))
            /\ rpos' = FirstNonBlank(input, rpos) + 2
       /\ (AtDash /\ ~DashThenGreater) =>
            (values' = values /\ result'.err /\ pc' = "done")
       /\ (values' # values /\ values'[Len(values')].Type = TokenArrow) =>
            (AtDash /\ DashThenGreater)]_vars

(* `0- >`: Number 0, then the dash alone is a lex error *)
C26_Witness ==
  /\ input = <<"0", "-", " ", ">">>
  /\ pc = "done"
  /\ result.err
  /\ Len(values) = 1

----------------------------------------------------------------------------
(* The tokenizer driven by a caller that keeps calling Next *)

SpecTokenLive == SpecToken /\ WF_vars(TokenizerNext)

(* the Next calls made so far: one per token, and one for a lex error *)
NextCalls == Len(values) + (IF result.err THEN 1 ELSE 0)

TokenizerInBounds ==
  /\ rpos <= Len(input)
  /\ NextCalls <= Len(input) + 1
  /\ (pc = "done" /\ ~result.err) =>
       /\ values[Len(values)].Type = TokenEOF
       /\ Next(input, rpos).tok.Type = TokenEOF
       /\ ~Next(input, rpos).err
       /\ Next(input, rpos).pos = rpos

TokenizerMoves ==
  /\ rpos' >= rpos
  /\ (NextStep /\ values' # values /\ values'[Len(values')].Type # TokenEOF) =>
       rpos' >= rpos + 1

(* C30: the position never decreases and never exceeds the length of the  *)
(* input, every Next that returns a token other than EOF moves it by at    *)
(* least one character, so a run of Next calls reaches EOF or a lex error  *)
(* within len(input)+1 calls, and Next after EOF returns EOF again         *)
(* without moving.                                                         *)
C30_TokenizingTerminates ==
  /\ []TokenizerInBounds
  /\ [][TokenizerMoves]_vars
  /\ <>(pc = "done")

(* four characters, four tokens and EOF: len(input)+1 calls *)
C30_Witness ==
  /\ input = <<"b", "|", "4", "H">>
  /\ pc = "done"
  /\ Len(values) = 5
  /\ rpos = 4
  /\ ~result.err

----------------------------------------------------------------------------
(* Parse and ParseExpression on expression texts: well-formed expressions, *)
(* the same with one character taken out or one bracket put in, with       *)
(* something left over behind them, and short texts over the characters    *)
(* of a format expression                                                  *)

TextBases ==
  {<<"p", "a", "r", "s", "e", "(", "b", "H", ")">>,
   <<"b", "H", " ", "|", " ", "{", "n", ":", " ", "{", "0", " ", "-", ">", " ", "x", "}", "}">>,
   <<"b", "H", " ", "|", " ", "{", "0", " ", "-", ">", " ", "x", "}">>,
   <<"b", "H">>}

Brackets == {"(", ")", "{", "}"}

DeleteAt(t, i) == SubSeq(t, 1, i - 1) \o SubSeq(t, i + 1, Len(t))

InsertAt(t, i, c) == SubSeq(t, 1, i) \o <<c>> \o SubSeq(t, i + 1, Len(t))

BracketTexts ==
  TextBases
  \cup UNION {{DeleteAt(t, i) : i \in 1..Len(t)} : t \in TextBases}
  \cup UNION {{InsertAt(t, i, c) : i \in 0..Len(t), c \in Brackets} : t \in TextBases}

TextTrails ==
  {<<"<", "H">>,
   <<" ", "x">>,
   <<" ", "|", " ", "{", "1", " ", "-", ">", " ", "y", "}">>,
   <<" ", "|", " ", "b">>,
   <<"4">>}

TrailTexts == {t \o r : t \in TextBases, r \in TextTrails}

FormatAlphabet == {"<", "4", "b", "|", "x"}

FormatTexts ==
  SeqsUpTo(FormatAlphabet, MaxText)
  \cup {<<"4", "<", "B">>,
        <<"p", "a", "r", "s", "e", "(", ")">>,
        <<"p", "a", "r", "s", "e", "(", "4", ")">>,
        <<"p", "a", "r", "s", "e", "(", "<", ")">>,
        <<"|", " ", "{", "0", " ", "-", ">", " ", "x", "}">>}

TextInputs == BracketTexts \cup TrailTexts \cup FormatTexts

InitText ==
  /\ input \in TextInputs
  /\ host = LittleEndian
  /\ expr = NoExpr
  /\ node = NoNode
  /\ src = <<>>
  /\ rpos = 0
  /\ idx = 1
  /\ values = <<>>
  /\ inVals = <<>>
  /\ result = NoResult
  /\ files = NoFiles
  /\ pc = "Parse"

SpecText == InitText /\ [][NextParse]_vars

ParseExpressionDone == pc = "done"

RECURSIVE BalancedFrom(_, _, _)
BalancedFrom(in, i, open) ==
  IF i > Len(in) THEN open = <<>>
  ELSE IF in[i] \in {"(", "{"} THEN BalancedFrom(in, i + 1, <<in[i]>> \o open)
  ELSE IF in[i] \in {")", "}"}
    THEN /\ open # <<>>
         /\ open[1] = (IF in[i] = ")" THEN "(" ELSE "{")
         /\ BalancedFrom(in, i + 1, Tail(open))
  ELSE BalancedFrom(in, i + 1, open)

Balanced(in) == BalancedFrom(in, 1, <<>>)

(* C24: ParseExpression rejects every expression whose `(`/`)` or `{`/`}`  *)
(* do not balance, whether a closer is missing or a closer is left over.   *)
C24_UnbalancedRejected ==
  (ParseExpressionDone /\ ~Balanced(input)) => result.err

(* what the code does reject: an unbalanced text is accepted only with     *)
(* tokens left over behind the parsed expression                           *)
UnbalancedOnlyLeftOver ==
  (ParseExpressionDone /\ ~Balanced(input) /\ ~result.err) =>
    ParseExpression(input).ps.current.Type # TokenEOF

MissingCloserRejected ==
  (ParseExpressionDone
     /\ input \in {<<"p", "a", "r", "s", "e", "(", "b", "H">>,
                   <<"b", "H", " ", "|", " ", "{", "n", ":", " ", "{", "0", " ", "-", ">", " ", "x", "}">>})
    => result.err

----------------------------------------------------------------------------
FollowingToken == ParseExpression(input).ps.current

(* C27: ParseExpression succeeds only when the parsed expression covers    *)
(* the whole input: whenever it returns a node, the token following the    *)
(* last consumed token is EOF, so no trailing token is silently ignored.   *)
C27_WholeInputParsed ==
  (ParseExpressionDone /\ ~result.err) => FollowingToken.Type = TokenEOF

(* the texts of the claim: a second byte-order prefix, a stray identifier   *)
(* and a further stage behind an object are dropped, the node is the node  *)
(* of the text before them                                                 *)
LeftOverDropped ==
  (ParseExpressionDone
     /\ \E r \in {<<"<", "H">>, <<" ", "x">>} : input = <<"b", "H">> \o r)
    => (~result.err /\ node = ParseExpression(<<"b", "H">>).node)

----------------------------------------------------------------------------
(* the shape of a format expression: an optional byte-order prefix, then   *)
(* items of an optional count and a format code, as far as they go         *)
AfterPrefix(in) == IF in # <<>> /\ in[1] \in {"<", ">", "@"} THEN 2 ELSE 1

RECURSIVE AfterItems(_, _)
AfterItems(in, i) ==
  IF DigitRunEnd(in, i) <= Len(in) /\ in[DigitRunEnd(in, i)] \in CodeSet
  THEN AfterItems(in, DigitRunEnd(in, i) + 1)
  ELSE i

ItemsEnd(in) == AfterItems(in, AfterPrefix(in))

NoFormatCode(in) == ItemsEnd(in) = AfterPrefix(in) /\ ItemsEnd(in) > Len(in)

CountWithoutCode(in) == ItemsEnd(in) <= Len(in) /\ isDigit(in[ItemsEnd(in)])

StartsWithPipe(in) == in # <<>> /\ in[1] = "|"

EmptyParseCall(in) == in = <<"p", "a", "r", "s", "e", "(", ")">>

NotAFormatExpression(in) ==
  NoFormatCode(in) \/ CountWithoutCode(in) \/ StartsWithPipe(in) \/ EmptyParseCall(in)

(* C25: a format expression holds at least one format code and every      *)
(* count prefix is directly followed by a format code: Parse and           *)
(* ParseExpression fail on the empty string, a lone byte-order prefix, a   *)
(* lone count, a count followed by anything but a format code, `parse()`   *)
(* and a text that starts with `|`.                                        *)
C25_FormatCodeRequired ==
  /\ (pc # "Parse" /\ NotAFormatExpression(input)) => expr.err
  /\ (ParseExpressionDone /\ NotAFormatExpression(input)) => result.err

C25_Witness ==
  /\ ParseExpressionDone
  /\ input = <<"4", "<", "B">>
  /\ CountWithoutCode(input)
  /\ expr.err
  /\ result.err
  /\ node = NoNode

----------------------------------------------------------------------------
SameFormats == node = FormatNode(expr)

(* C29: Parse and ParseExpression agree on every whitespace-free input of  *)
(* byte-order markers, digits and format-code letters: both fail, or both  *)
(* succeed with the same Order and the same (Code, Size, Signed, Count).   *)
C29_ParsersAgree ==
  ParseExpressionDone =>
    /\ expr.err = result.err
    /\ ~expr.err => SameFormats

(* what holds: every input Parse accepts gives the same FormatNode, and    *)
(* the two differ only where ParseExpression leaves tokens unread          *)
ParsersAgreeToEOF ==
  ParseExpressionDone =>
    /\ ~expr.err => (~result.err /\ SameFormats)
    /\ (expr.err /\ ~result.err) => FollowingToken.Type # TokenEOF

----------------------------------------------------------------------------
(* Field names in an object: `bH | {0 -> name}` and `bH | {name: {0 -> x}}` *)
(* for identifier-shaped names                                             *)

MaxName == 3

NameStart == {"b", "h", "i", "g", "_"}

NamePart == NameStart \cup {"4"}

IdentNames ==
  {<<c>> \o r : c \in NameStart, r \in SeqsUpTo(NamePart, MaxName - 1)}
  \cup {<<"h", "i", "g", "h">>, <<"b", "B">>, <<"Q", "i">>, <<"h", "e", "a", "d", "e", "r">>}

IndexFieldText(name) ==
  <<"b", "H", " ", "|", " ", "{", "0", " ", "-", ">", " ">> \o name \o <<"}">>

NestedFieldText(name) ==
  <<"b", "H", " ", "|", " ", "{">> \o name
    \o <<":", " ", "{", "0", " ", "-", ">", " ", "x", "}", "}">>

NameInputs ==
  {IndexFieldText(name) : name \in IdentNames}
  \cup {NestedFieldText(name) : name \in IdentNames}

InitName ==
  /\ input \in NameInputs
  /\ host = LittleEndian
  /\ expr = NoExpr
  /\ node = NoNode
  /\ src = <<>>
  /\ rpos = 0
  /\ idx = 1
  /\ values = <<>>
  /\ inVals = <<>>
  /\ result = NoResult
  /\ files = NoFiles
  /\ pc = "Parse"

SpecName == InitName /\ [][NextParse]_vars

IndexFieldNamed(name) ==
  /\ ~result.err
  /\ node.kind = "pipe"
  /\ node.Right = ObjectNode(<<IndexFieldDef(0, name)>>)

NestedFieldNamed(name) ==
  /\ ~result.err
  /\ node.kind = "pipe"
  /\ node.Right =
       ObjectNode(<<NestedFieldDef(name, ObjectNode(<<IndexFieldDef(0, <<"x">>)>>))>>)

(* C28: every identifier-shaped field name is usable in an object:         *)
(* `F | {0 -> name}` and `F | {name: {0 -> x}}` parse and the field        *)
(* carries exactly that name, also when the name begins with or consists   *)
(* only of format-code letters.                                            *)
C28_IdentifierIsFieldName ==
  ParseExpressionDone =>
    \A name \in IdentNames :
      /\ input = IndexFieldText(name) => IndexFieldNamed(name)
      /\ input = NestedFieldText(name) => NestedFieldNamed(name)

(* the names the tokenizer returns as one token *)
OneToken(name) == ~Next(name, 0).err /\ Next(name, 0).tok.Value = name

(* what holds: a name is usable exactly when it is one token, that is,     *)
(* unless it starts with a format-code letter followed by a format-code    *)
(* letter or a digit                                                       *)
OneTokenIsFieldName ==
  ParseExpressionDone =>
    \A name \in IdentNames :
      /\ input = IndexFieldText(name) =>
           IF OneToken(name) THEN IndexFieldNamed(name) ELSE result.err
      /\ input = NestedFieldText(name) =>
           IF OneToken(name) THEN NestedFieldNamed(name) ELSE result.err

FormatLetterNamesWork ==
  (ParseExpressionDone /\ input = IndexFieldText(<<"b">>)) => IndexFieldNamed(<<"b">>)

====
